---- MODULE Spec2Model ----
(***************************************************************************)
(* A model of the chat-operations assistant of ktds_gpt_demo: the Script   *)
(* Discriminator, the cluster adapter (KubernetesService) and the webhook  *)
(* dispatch of msp_automation_chatbot/app, together with the older         *)
(* revision of the same components kept in mattermost-bot/main.py.         *)
(*                                                                         *)
(* The specifications share the variables:                                 *)
(*   SpecDisc  the Script Discriminator applied to a reply text            *)
(*   SpecK8s   execute_kubectl_command on a command string                 *)
(*   Spec      process_webhook_request and its deferred tasks              *)
(*   SpecHttp  the /webhook endpoint: token check, workflow trigger,       *)
(*             process_webhook_request and its deferred tasks              *)
(*   SpecGpt   one call of ChatGPTService.get_response                     *)
(*   SpecCalls concurrent get_response tasks sharing request_count         *)
(*   SpecFmt   K8sFormatter: _calculate_age and the format_* methods       *)
(*   SpecFlow  prefect_flows: one run of k8s_troubleshooting_flow          *)
(***************************************************************************)
EXTENDS Integers, Sequences, FiniteSets, TLC

VARIABLES
    \* ---- Script Discriminator
    text,            \* the text handed to detect_script_type, a sequence of lines
    detected,        \* result of app/utils/script_discriminator.py
    detected_bot,    \* result of mattermost-bot/main.py's revision
    \* ---- cluster adapter
    command,         \* the command string, a sequence of blank-separated tokens
    format_type,     \* "table" | "yaml"
    revision,        \* "app" | "bot": which KubernetesService runs
    client_initialized, \* is_client_available()
    enable_subprocess,  \* app_config.ENABLE_KUBECTL_SUBPROCESS
    pods,            \* the cluster's pods: a sequence of phases
    server_honours,  \* whether the API server applies a != field selector
    api_outcome,     \* how the cluster API answered: "ok" or the exception raised
    api_calls,       \* sequence of cluster API requests issued
    subprocess_runs, \* sequence of argv handed to subprocess.run
    k8s_result,      \* what execute_kubectl_command returned or raised
    kpc,             \* "idle" | "start" | "done"
    \* ---- webhook dispatch
    msg,             \* inbound text, a sequence of atoms (words and blanks)
    response_url,    \* TRUE when the webhook carried a callback URL
    reply,           \* the synchronous MattermostResponse
    tasks,           \* asyncio tasks created and not yet run
    llm_reply,       \* the language model's reply to the running task
    calls,           \* backend adapter calls made by deferred tasks
    posts,           \* outbound post attempts
    prom_answer,     \* what the metrics API answered to process_prometheus_query
    prom_result,     \* what PrometheusService.execute_query returned to it
    hpc,             \* "idle" | "recv" | "dispatched" | "done" | "raised"
    \* ---- language-model service
    api_key,         \* whether config.OPENAI_API_KEY is set
    request_count,   \* ChatGPTService.request_count
    attempt,         \* the loop variable of get_response
    retry_delay,     \* seconds to sleep before the next attempt
    sleeps,          \* the delays slept so far
    outcomes,        \* how each HTTP post of the call ended
    gpt_result,      \* the text get_response returned
    gpt_pc,          \* "idle" | "start" | "attempt" | "sleep" | "done"
    \* ---- table formatter
    elapsed,         \* whole seconds from creation_time to now
    age,             \* what _calculate_age returned: a count and its unit
    resource_kind,   \* which format_<kind>_as_<rendering> method is called
    rendering,       \* "table" | "yaml"
    item_count,      \* len(<collection>.items)
    formatted,       \* what the format_* method returned
    fmt_pc,          \* "idle" | "start" | "done" | "formatted"
    \* ---- webhook endpoint
    token,           \* the token field of the request
    webhook_token,   \* config.MATTERMOST_WEBHOOK_TOKEN, "" when not set
    http_status,     \* status of the HTTP response: "200" | "401"
    flow_runs,       \* parameters of the flow runs created from the deployment
    \* ---- concurrent calls of get_response
    slots,           \* per task: the step it executes next, the value it read
    started,         \* number of get_response calls begun
    entries,         \* per call, in the order of line 26: counter read, rejected
    http_posts,      \* number of calls that reached client.post
    \* ---- troubleshooting flow
    flow_target,     \* the parameters target_namespace and target_pod
    flow_run,        \* how many times the flow function was retried
    flow_listing,    \* what the pod listing of find_abnormal_pods returned
    flow_abnormal,   \* after step 3: abnormal_pods_result, abnormal_pod_info
    flow_posts,      \* attempts of send_response in this run: step name, raised
    flow_pc          \* "idle", or the step the flow function executes next

discVars == <<text, detected, detected_bot>>
k8sVars  == <<command, format_type, revision, client_initialized,
              enable_subprocess, pods, server_honours, api_outcome, api_calls,
              subprocess_runs, k8s_result, kpc>>
hookVars == <<msg, response_url, reply, tasks, llm_reply, calls, posts,
              prom_answer, prom_result, hpc>>
gptVars  == <<api_key, request_count, attempt, retry_delay, sleeps, outcomes,
              gpt_result, gpt_pc>>
fmtVars  == <<elapsed, age, resource_kind, rendering, item_count, formatted, fmt_pc>>
httpVars == <<token, webhook_token, http_status, flow_runs>>
callVars == <<slots, started, entries, http_posts>>
flowVars == <<flow_target, flow_run, flow_listing, flow_abnormal, flow_posts, flow_pc>>
svcVars  == <<gptVars, fmtVars, httpVars, callVars, flowVars>>
vars     == <<discVars, k8sVars, hookVars, svcVars>>

None == "<none>"

(***************************************************************************)
(* TEXT.  A text is a sequence of lines (the Python string is the lines    *)
(* joined by "\n").  The lines are drawn from a fixed alphabet; what the   *)
(* regular expressions of the code do on each line is tabulated below from *)
(* the patterns themselves.  Every pattern is applied case-insensitively   *)
(* (re.IGNORECASE, or on text.lower()), so the tables are of case-folded   *)
(* content.                                                                *)
(***************************************************************************)
\* A fence line is the three backquotes followed by its hint; it is written
\* here with the word FENCE in place of the backquotes.
FenceLines == {"FENCE promql", "FENCE bash", "FENCE yaml", "FENCE"}

ContentLines ==
    { "up",
      "sum(up)",
      "kubectl get pods",
      "kubectl get pods -o jsonpath={.items}",
      "kubectl logs {name}",
      "http_requests_total",
      "node_filesystem_avail_bytes",
      "filesystem free",
      "",
      "  up  " }

IsFence(l) == l \in FenceLines

\* The language hint captured by (promql|yaml|bash|sh|kubectl) right after ```.
LangHint(l) ==
    CASE l = "FENCE promql" -> "promql"
      [] l = "FENCE bash"   -> "bash"
      [] l = "FENCE yaml"   -> "yaml"
      [] OTHER           -> ""

\* str.lstrip(), str.rstrip() and str.strip() of one line.
LStripLine(l) ==
    CASE l = "  up  " -> "up  "
      [] l = "  up"   -> "up"
      [] OTHER        -> l

RStripLine(l) ==
    CASE l = "  up  " -> "  up"
      [] l = "up  "   -> "up"
      [] OTHER        -> l

StripLine(l) == RStripLine(LStripLine(l))

IsBlank(l) == StripLine(l) = ""

RECURSIVE DropLeadingBlank(_)
DropLeadingBlank(s) ==
    IF s = <<>> THEN <<>>
    ELSE IF IsBlank(Head(s)) THEN DropLeadingBlank(Tail(s))
    ELSE s

RECURSIVE DropTrailingBlank(_)
DropTrailingBlank(s) ==
    IF s = <<>> THEN <<>>
    ELSE IF IsBlank(s[Len(s)]) THEN DropTrailingBlank(SubSeq(s, 1, Len(s) - 1))
    ELSE s

\* str.strip() of a multi-line string: whitespace, newlines included, goes
\* from both ends; the inner lines keep theirs.
StripText(s) ==
    LET b == DropTrailingBlank(DropLeadingBlank(s)) IN
    IF b = <<>> THEN <<>>
    ELSE IF Len(b) = 1 THEN <<StripLine(b[1])>>
    ELSE [b EXCEPT ![1] = LStripLine(b[1]), ![Len(b)] = RStripLine(b[Len(b)])]

(***************************************************************************)
(* The signature patterns, numbered as in the source lists.                *)
(***************************************************************************)
NumPromqlPatterns == 12
NumK8sPatterns == 5
NumPromqlPatternsBot == 5
NumK8sPatternsBot == 4

\* promql_patterns that match inside the line.  Pattern 11, _total\s*$, is
\* anchored at the end of the searched string and is handled by EndsTotal.
PromqlLineHits(l) ==
    CASE l = "sum(up)"                               -> {1}
      [] l = "kubectl get pods -o jsonpath={.items}" -> {3}
      [] l = "kubectl logs {name}"                   -> {3}
      [] l = "node_filesystem_avail_bytes"           -> {6}
      [] OTHER                                       -> {}

EndsTotal(l) == l = "http_requests_total"

\* k8s_patterns that match inside the line.  Patterns 3..5 start with \b-,
\* which needs a word character right before the dash: no line here has one.
K8sLineHits(l) ==
    CASE l = "kubectl get pods"                      -> {1, 2}
      [] l = "kubectl get pods -o jsonpath={.items}" -> {1, 2}
      [] l = "kubectl logs {name}"                   -> {1}
      [] OTHER                                       -> {}

\* 'filesystem' in s, and any(word in s for word in [avail, size, used, free])
HasFilesystem(l) == l \in {"node_filesystem_avail_bytes", "filesystem free"}
HasFsWord(l) == l \in {"node_filesystem_avail_bytes", "filesystem free"}
HasKubectl(l) == l \in {"kubectl get pods", "kubectl get pods -o jsonpath={.items}",
                        "kubectl logs {name}"}

\* re.search(promql_patterns[p], s) for a string s of one or more lines.
PromqlSearch(p, s) ==
    IF p = 11
    THEN LET t == DropTrailingBlank(s) IN t # <<>> /\ EndsTotal(t[Len(t)])
    ELSE \E i \in 1..Len(s) : p \in PromqlLineHits(s[i])

K8sSearch(p, s) == \E i \in 1..Len(s) : p \in K8sLineHits(s[i])

AnyPromql(s) == \E p \in 1..NumPromqlPatterns : PromqlSearch(p, s)
AnyK8s(s) == \E p \in 1..NumK8sPatterns : K8sSearch(p, s)

PromqlCount(s, n) == Cardinality({p \in 1..n : PromqlSearch(p, s)})
K8sCount(s, n) == Cardinality({p \in 1..n : K8sSearch(p, s)})

(***************************************************************************)
(* re.findall(r'```(?:(promql|yaml|bash|sh|kubectl))?\n?(.*?)\n?```', ...) *)
(* The fences pair up left to right: an opening fence takes the next fence *)
(* line as its end, whatever hint that line carries, and the scan goes on  *)
(* after it.  A last fence with no partner yields no block.                *)
(***************************************************************************)
RECURSIVE NextFence(_, _)
NextFence(s, i) ==
    IF i > Len(s) THEN 0
    ELSE IF IsFence(s[i]) THEN i
    ELSE NextFence(s, i + 1)

RECURSIVE FindBlocks(_, _)
FindBlocks(s, i) ==
    LET open == NextFence(s, i) IN
    IF open = 0 THEN <<>>
    ELSE LET close == NextFence(s, open + 1) IN
         IF close = 0 THEN <<>>
         ELSE <<[lang_hint |-> LangHint(s[open]),
                 block |-> SubSeq(s, open + 1, close - 1)]>>
              \o FindBlocks(s, close + 1)

code_blocks(s) == FindBlocks(s, 1)

Result(t, script) == [script_type |-> t, extracted_script |-> script]

\* detect_script_type has not run
NoResult == Result(None, <<>>)

\* models/schemas.py: MattermostResponse(text, response_type = "in_channel")
MattermostResponse(t, response_type) == [text |-> t, response_type |-> response_type]

NoReply == MattermostResponse(None, None)

\* what execute_kubectl_command returns, by the heading of the message
KResult(kind, note, items, fmt) ==
    [kind |-> kind, note |-> note, items |-> items, format |-> fmt]

NoKResult == KResult(None, "", <<>>, "")

\* BlockDecision with the language hints ignored (every block scored by its
\* content, as the older revision does).
BlockDecisionHintIgnored(b) ==
    LET block_clean == StripText(b.block) IN
    IF block_clean # <<>>
    THEN IF AnyPromql(block_clean) THEN "promql"
         ELSE IF AnyK8s(block_clean) THEN "kubernetes"
         ELSE None
    ELSE None

\* The body of the loop over code_blocks (lines 46-58): what one block decides.
BlockDecision(b) ==
    LET block_clean == StripText(b.block) IN
    IF b.lang_hint = "promql" THEN "promql"
    ELSE IF b.lang_hint \in {"bash", "sh", "kubectl"} THEN "kubernetes"
    ELSE IF b.lang_hint = "" /\ block_clean # <<>>
         THEN IF AnyPromql(block_clean) THEN "promql"
              ELSE IF AnyK8s(block_clean) THEN "kubernetes"
              ELSE None
    ELSE None

RECURSIVE FirstDeciding(_, _)
FirstDeciding(blocks, k) ==
    IF k > Len(blocks) THEN 0
    ELSE IF BlockDecision(blocks[k]) # None THEN k
    ELSE FirstDeciding(blocks, k + 1)

\* first line of lines matching any promql pattern (0 if none)
RECURSIVE FirstPromqlLine(_, _)
FirstPromqlLine(lines, i) ==
    IF i > Len(lines) THEN 0
    ELSE IF AnyPromql(<<lines[i]>>) THEN i
    ELSE FirstPromqlLine(lines, i + 1)

RECURSIVE FirstKubectlLine(_, _)
FirstKubectlLine(lines, i) ==
    IF i > Len(lines) THEN 0
    ELSE IF HasKubectl(lines[i]) THEN i
    ELSE FirstKubectlLine(lines, i + 1)

\* AnalyzeFullText returning the text as it came, not trimmed, when no
\* signature set wins.
AnalyzeFullTextUntrimmed(t) ==
    LET text_lower     == StripText(t)
        promql_matches == PromqlCount(text_lower, NumPromqlPatterns)
        k8s_matches    == K8sCount(text_lower, NumK8sPatterns)
        lines          == StripText(t)
        pl             == FirstPromqlLine(lines, 1)
        kl             == FirstKubectlLine(lines, 1)
        filesystem     == /\ \E i \in 1..Len(text_lower) : HasFilesystem(text_lower[i])
                          /\ \E i \in 1..Len(text_lower) : HasFsWord(text_lower[i])
    IN
    IF filesystem /\ pl # 0 THEN Result("promql", <<StripLine(lines[pl])>>)
    ELSE IF promql_matches > k8s_matches /\ promql_matches > 0
         THEN IF pl # 0 THEN Result("promql", <<StripLine(lines[pl])>>)
              ELSE Result("promql", StripText(t))
    ELSE IF k8s_matches > promql_matches /\ k8s_matches > 0
         THEN IF kl # 0 THEN Result("kubernetes", <<StripLine(lines[kl])>>)
              ELSE Result("kubernetes", StripText(t))
    ELSE Result("unknown", t)

\* Lines 60-85: the analysis of the entire text.
AnalyzeFullText(t) ==
    LET text_lower     == StripText(t)
        promql_matches == PromqlCount(text_lower, NumPromqlPatterns)
        k8s_matches    == K8sCount(text_lower, NumK8sPatterns)
        lines          == StripText(t)
        pl             == FirstPromqlLine(lines, 1)
        kl             == FirstKubectlLine(lines, 1)
        filesystem     == /\ \E i \in 1..Len(text_lower) : HasFilesystem(text_lower[i])
                          /\ \E i \in 1..Len(text_lower) : HasFsWord(text_lower[i])
    IN
    IF filesystem /\ pl # 0 THEN Result("promql", <<StripLine(lines[pl])>>)
    ELSE IF promql_matches > k8s_matches /\ promql_matches > 0
         THEN IF pl # 0 THEN Result("promql", <<StripLine(lines[pl])>>)
              ELSE Result("promql", StripText(t))
    ELSE IF k8s_matches > promql_matches /\ k8s_matches > 0
         THEN IF kl # 0 THEN Result("kubernetes", <<StripLine(lines[kl])>>)
              ELSE Result("kubernetes", StripText(t))
    ELSE Result("unknown", StripText(t))

\* ScriptDiscriminator.detect_script_type of app/utils/script_discriminator.py
detect_script_type(t) ==
    LET blocks == code_blocks(t)
        k      == FirstDeciding(blocks, 1)
    IN
    IF k # 0 THEN Result(BlockDecision(blocks[k]), StripText(blocks[k].block))
    ELSE AnalyzeFullText(t)

(***************************************************************************)
(* The revision in mattermost-bot/main.py: five and four patterns, every   *)
(* block (hinted or not) scored by match counts, no line extraction.       *)
(***************************************************************************)
BlockDecisionBot(b) ==
    LET block_lower == StripText(b.block)
        p == PromqlCount(block_lower, NumPromqlPatternsBot)
        k == K8sCount(block_lower, NumK8sPatternsBot)
    IN IF p > k THEN "promql" ELSE IF k > p THEN "kubernetes" ELSE None

RECURSIVE FirstDecidingBot(_, _)
FirstDecidingBot(blocks, k) ==
    IF k > Len(blocks) THEN 0
    ELSE IF BlockDecisionBot(blocks[k]) # None THEN k
    ELSE FirstDecidingBot(blocks, k + 1)

detect_script_type_bot(t) ==
    LET text_lower     == StripText(t)
        promql_matches == PromqlCount(text_lower, NumPromqlPatternsBot)
        k8s_matches    == K8sCount(text_lower, NumK8sPatternsBot)
        blocks         == code_blocks(t)
        k              == FirstDecidingBot(blocks, 1)
    IN
    IF k # 0 THEN Result(BlockDecisionBot(blocks[k]), StripText(blocks[k].block))
    ELSE IF promql_matches > k8s_matches /\ promql_matches > 0
         THEN Result("promql", StripText(t))
    ELSE IF k8s_matches > promql_matches /\ k8s_matches > 0
         THEN Result("kubernetes", StripText(t))
    ELSE Result("unknown", StripText(t))

(***************************************************************************)
(* SpecDisc: the discriminator applied to every text of at most MaxSegs    *)
(* segments, a segment being one line of prose, one stray fence line, or a *)
(* fenced block of one line.                                               *)
(***************************************************************************)
MaxSegs == 2

Segments ==
    {<<l>> : l \in ContentLines \cup FenceLines}
    \cup {<<f, b, "FENCE">> : f \in FenceLines, b \in ContentLines}

RECURSIVE TextsOf(_)
TextsOf(n) ==
    IF n = 0 THEN {<<>>}
    ELSE LET shorter == TextsOf(n - 1) IN
         shorter \cup {t \o s : t \in shorter, s \in Segments}

\* one answer of the metrics API to GET /api/v1/query: http is the status
\* code, or the exception of the transport, or "unconfigured" when there is
\* no PROMETHEUS_URL to ask; status, error, resultType and results are the
\* fields of the JSON body
Answer(http, status, error, resultType, results) ==
    [http |-> http, status |-> status, error |-> error,
     resultType |-> resultType, results |-> results]

\* what execute_query returns: the kind of message, whether it carries the
\* line "Query: <query>" and which query, the text after "Error executing
\* query: " and where it comes from, and the values as rendered
PromResult(kind, titled, query, source, message, values) ==
    [kind |-> kind, titled |-> titled, query |-> query,
     detail |-> [source |-> source, text |-> message], values |-> values]

K8sIdle ==
    /\ command = <<>> /\ format_type = "table" /\ revision = "app"
    /\ client_initialized = FALSE /\ enable_subprocess = FALSE
    /\ pods = <<>> /\ server_honours = FALSE /\ api_outcome = "ok"
    /\ api_calls = <<>> /\ subprocess_runs = <<>>
    /\ k8s_result = NoKResult /\ kpc = "idle"

HookIdle ==
    /\ msg = <<>> /\ response_url = FALSE /\ reply = NoReply /\ tasks = <<>>
    /\ llm_reply = <<>> /\ calls = <<>> /\ posts = <<>>
    /\ prom_answer = Answer(None, None, None, None, <<>>)
    /\ prom_result = PromResult(None, FALSE, <<>>, None, None, <<>>)
    /\ hpc = "idle"

DiscIdle == text = <<>> /\ detected = NoResult /\ detected_bot = NoResult

\* the services that no request has reached
SvcIdle ==
    /\ api_key = FALSE /\ request_count = 0 /\ attempt = 0 /\ retry_delay = 1
    /\ sleeps = <<>> /\ outcomes = <<>> /\ gpt_result = None /\ gpt_pc = "idle"
    /\ elapsed = 0 /\ age = [count |-> 0, unit |-> None] /\ fmt_pc = "idle"
    /\ resource_kind = None /\ rendering = None /\ item_count = 0
    /\ formatted = None
    /\ token = None /\ webhook_token = None /\ http_status = None
    /\ flow_runs = <<>>
    /\ slots = <<>> /\ started = 0 /\ entries = <<>> /\ http_posts = 0
    /\ flow_target = [namespace |-> None, pod |-> None] /\ flow_run = 0
    /\ flow_listing = [kind |-> None, phases |-> <<>>]
    /\ flow_abnormal = [result |-> None, info |-> <<>>]
    /\ flow_posts = <<>> /\ flow_pc = "idle"

InitDisc ==
    /\ text \in TextsOf(MaxSegs)
    /\ detected = NoResult
    /\ detected_bot = NoResult
    /\ K8sIdle
    /\ HookIdle
    /\ SvcIdle

\* script_discriminator.detect_script_type(text), app revision
Detect ==
    /\ detected = NoResult /\ detected_bot = NoResult
    /\ detected' = detect_script_type(text)
    /\ UNCHANGED <<text, detected_bot, k8sVars, hookVars, svcVars>>

\* ScriptDiscriminator.detect_script_type(text), mattermost-bot revision
DetectBot ==
    /\ detected = NoResult /\ detected_bot = NoResult
    /\ detected_bot' = detect_script_type_bot(text)
    /\ UNCHANGED <<text, detected, k8sVars, hookVars, svcVars>>

NextDisc == Detect \/ DetectBot

SpecDisc == InitDisc /\ [][NextDisc]_vars

(***************************************************************************)
(* Claims about the Script Discriminator (checked under SpecDisc).         *)
(***************************************************************************)
Ran == detected # NoResult
RanBot == detected_bot # NoResult

Blocks == code_blocks(text)

\* A block that ends the loop over code_blocks: a hint naming a language,
\* or no hint and a signature of either set matching its trimmed content.
Decides(b) ==
    \/ b.lang_hint \in {"promql", "bash", "sh", "kubectl"}
    \/ /\ b.lang_hint = ""
       /\ \/ AnyPromql(StripText(b.block))
          \/ AnyK8s(StripText(b.block))

\* C1 as stated: for every text that holds a block tagged promql, whatever
\* else surrounds it, the result is promql with that block's trimmed content.
C1_AnyPromqlBlock ==
    (Ran /\ \E k \in 1..Len(Blocks) : Blocks[k].lang_hint = "promql")
    => \E k \in 1..Len(Blocks) :
          /\ Blocks[k].lang_hint = "promql"
          /\ detected = Result("promql", StripText(Blocks[k].block))

\* C1 amended: a block tagged promql, with no earlier fenced block that
\* already decides, gives promql with that block's trimmed content, whatever
\* prose surrounds it.
C1_FirstDecidingPromqlBlock ==
    Ran => \A k \in 1..Len(Blocks) :
              ( /\ Blocks[k].lang_hint = "promql"
                /\ \A j \in 1..(k - 1) : ~Decides(Blocks[j]) )
              => detected = Result("promql", StripText(Blocks[k].block))

\* C1 witness: a promql block after a block that decides nothing, trimmed
\* to something other than its raw content.
C1_Witness ==
    /\ Ran
    /\ Len(Blocks) = 2
    /\ ~Decides(Blocks[1])
    /\ Blocks[2].lang_hint = "promql"
    /\ StripText(Blocks[2].block) # Blocks[2].block
    /\ detected = Result("promql", StripText(Blocks[2].block))

ZeroOnText(t) ==
    /\ PromqlCount(StripText(t), NumPromqlPatterns) = 0
    /\ K8sCount(StripText(t), NumK8sPatterns) = 0

\* C8 as stated: zero signature matches of both sets on the input text give
\* Unknown with the trimmed text.
C8_ZeroMatchesUnknown ==
    (Ran /\ ZeroOnText(text)) => detected = Result("unknown", StripText(text))

\* C8 amended: Unknown with the trimmed text when no fenced block is tagged
\* promql, bash, sh or kubectl and no signature matches the text as a whole,
\* any single line of it, or the trimmed content of any fenced block.
C8_ZeroEverywhereUnknown ==
    ( /\ Ran
      /\ ZeroOnText(text)
      /\ \A i \in 1..Len(text) : ~AnyPromql(<<text[i]>>) /\ ~AnyK8s(<<text[i]>>)
      /\ \A k \in 1..Len(Blocks) :
            /\ Blocks[k].lang_hint \notin {"promql", "bash", "sh", "kubectl"}
            /\ ~AnyPromql(StripText(Blocks[k].block))
            /\ ~AnyK8s(StripText(Blocks[k].block)) )
    => detected = Result("unknown", StripText(text))

\* C8 witness: a text with a (yaml-tagged) block and surrounding whitespace,
\* no signature anywhere, classified Unknown with the trimmed text.
C8_Witness ==
    /\ Ran
    /\ ZeroOnText(text)
    /\ Len(Blocks) = 1
    /\ Blocks[1].lang_hint = "yaml"
    /\ StripText(text) # text
    /\ detected = Result("unknown", StripText(text))

TieNonzero(s, np, nk) ==
    /\ PromqlCount(s, np) = K8sCount(s, nk)
    /\ PromqlCount(s, np) > 0

\* The text the signatures were scored on to reach the result: the trimmed
\* content of the untagged block that decided, or the whole trimmed text
\* when no block decided.  (<<>> when a language hint decided: no scoring.)
ScoredText ==
    LET k == FirstDeciding(Blocks, 1) IN
    IF k = 0 THEN StripText(text)
    ELSE IF Blocks[k].lang_hint = "" THEN StripText(Blocks[k].block)
    ELSE <<>>

ScoredTextBot ==
    LET k == FirstDecidingBot(Blocks, 1) IN
    IF k = 0 THEN StripText(text) ELSE StripText(Blocks[k].block)

\* C9: when both signature sets score equally and nonzero on the text being
\* scored, the result is Unknown (the Discriminator does not guess).
C9_TieIsUnknown ==
    (Ran /\ TieNonzero(ScoredText, NumPromqlPatterns, NumK8sPatterns))
    => detected.script_type = "unknown"

\* The same statement for the mattermost-bot revision, which keeps it.
C9_TieIsUnknownBot ==
    (RanBot /\ TieNonzero(ScoredTextBot, NumPromqlPatternsBot, NumK8sPatternsBot))
    => detected_bot.script_type = "unknown"

\* What C10 says an untagged block decides: the set with the strictly
\* higher match count, and nothing on a tie or on zero-zero.
CountDecision(b, np, nk) ==
    LET s == StripText(b.block)
        p == PromqlCount(s, np)
        k == K8sCount(s, nk)
    IN IF p > k THEN "promql" ELSE IF k > p THEN "kubernetes" ELSE None

\* C10: the first fenced block of a text, when untagged, is classified by
\* comparing the match counts: the strictly higher count wins with the
\* block as fragment, and a tie or zero-zero leaves the decision to what
\* follows the block.
C10_UntaggedBlockByCount ==
    (Ran /\ Len(Blocks) = 1 /\ Blocks[1].lang_hint = "")
    => LET d == CountDecision(Blocks[1], NumPromqlPatterns, NumK8sPatterns) IN
       IF d # None
       THEN detected = Result(d, StripText(Blocks[1].block))
       ELSE detected = AnalyzeFullText(text)

\* The same statement for the mattermost-bot revision, which keeps it.
C10_UntaggedBlockByCountBot ==
    (RanBot /\ Len(Blocks) = 1 /\ Blocks[1].lang_hint = "")
    => LET d == CountDecision(Blocks[1], NumPromqlPatternsBot, NumK8sPatternsBot) IN
       d # None => detected_bot = Result(d, StripText(Blocks[1].block))

(***************************************************************************)
(* CLUSTER ADAPTER.  A command is a sequence of tokens (the Python string  *)
(* is the tokens joined by one blank).  What the string tests of the code  *)
(* do on each token is tabulated from the token's text.                    *)
(***************************************************************************)
Verbs == {"get", "describe", "logs", "delete", "scale", "version", "cluster-info"}

Args ==
    { "pods",
      "logstash-0",
      "-n",
      "--all-namespaces",
      "--field-selector=status.phase!=Running",
      "--field-selector=status.phase!=Pending",
      "'x",
      ";id",
      "delete",
      "get",
      "nodes",
      "--tail=abc" }

\* str.lower() of one token
Lower(tok) ==
    CASE tok = "--field-selector=status.phase!=Running"
           -> "--field-selector=status.phase!=running"
      [] tok = "--field-selector=status.phase!=Pending"
           -> "--field-selector=status.phase!=pending"
      [] tok = "--field-selector=status.phase!=Running,status.phase!=Pending"
           -> "--field-selector=status.phase!=running,status.phase!=pending"
      [] OTHER -> tok

LowerAll(cmd) == [i \in 1..Len(cmd) |-> Lower(cmd[i])]

StartsWithDash(tok) ==
    tok \in {"-n", "--all-namespaces", "--tail=abc",
             "--field-selector=status.phase!=Running",
             "--field-selector=status.phase!=Pending",
             "--field-selector=status.phase!=Running,status.phase!=Pending"}
StartsWithDashDash(tok) == StartsWithDash(tok) /\ tok # "-n"
HasFieldSelector(tok) ==
    tok \in {"--field-selector=status.phase!=Running",
             "--field-selector=status.phase!=Pending",
             "--field-selector=status.phase!=Running,status.phase!=Pending"}
\* the text of the token after "--field-selector="
FieldSelectorValue(tok) ==
    CASE tok = "--field-selector=status.phase!=Running" -> "status.phase!=Running"
      [] tok = "--field-selector=status.phase!=Pending" -> "status.phase!=Pending"
      [] tok = "--field-selector=status.phase!=Running,status.phase!=Pending"
           -> "status.phase!=Running,status.phase!=Pending"
      [] OTHER -> ""
\* "!=" in value and "status.phase" in value
IsPhaseNotEqual(value) ==
    value \in {"status.phase!=Running", "status.phase!=Pending",
               "status.phase!=Running,status.phase!=Pending"}
\* value.split("status.phase!=")[1]: the text between the first
\* "status.phase!=" and the next one, the comma of a compound selector
\* included.  (The bot's value.split("!=")[1] gives "Running,status.phase"
\* for the compound selector, as little the phase of a pod as "Running,".)
AfterNotEqual(value) ==
    CASE value = "status.phase!=Running" -> "Running"
      [] value = "status.phase!=Pending" -> "Pending"
      [] value = "status.phase!=Running,status.phase!=Pending" -> "Running,"
      [] OTHER -> ""
\* a token holding one quotation mark: shlex opens or closes a quoted span
IsQuoteTok(tok) == tok = "'x"
\* any(char in tok for char in shell_chars)
HasShellChar(tok) == tok = ";id"
\* the token ends with a word of dangerous_patterns (delete, apply, ...)
EndsDangerous(tok) == tok = "delete"
\* tok.startswith("--tail=") with a value that int() does not accept
IsBadTail(tok) == tok = "--tail=abc"
\* "logs" in tok
HasLogs(tok) == tok \in {"logs", "logstash-0"}

RECURSIVE IndexOf(_, _, _)
\* first i >= from with s[i] \in set, 0 if none
IndexOf(s, set, from) ==
    IF from > Len(s) THEN 0
    ELSE IF s[from] \in set THEN from
    ELSE IndexOf(s, set, from + 1)

\* "<x> " in command: token x not in last place
HasFlagWithBlank(cmd, flags) ==
    \E i \in 1..(Len(cmd) - 1) : cmd[i] \in flags

(***************************************************************************)
(* shlex.split: a word is one token, or the tokens from a quotation mark   *)
(* to the next one; an unclosed quotation raises ValueError.               *)
(***************************************************************************)
ShlexRaises(cmd) ==
    Cardinality({i \in 1..Len(cmd) : IsQuoteTok(cmd[i])}) % 2 = 1

RECURSIVE ShlexWords(_, _, _)
ShlexWords(cmd, i, open) ==
    IF i > Len(cmd) THEN <<>>
    ELSE IF open = <<>>
         THEN IF IsQuoteTok(cmd[i])
              THEN ShlexWords(cmd, i + 1, <<cmd[i]>>)
              ELSE <<(<<cmd[i]>>)>> \o ShlexWords(cmd, i + 1, <<>>)
    ELSE IF IsQuoteTok(cmd[i])
         THEN <<(open \o <<cmd[i]>>)>> \o ShlexWords(cmd, i + 1, <<>>)
         ELSE ShlexWords(cmd, i + 1, open \o <<cmd[i]>>)

ShlexSplit(cmd) == ShlexWords(cmd, 1, <<>>)

allowed_kubectl_commands ==
    {"get", "describe", "logs", "cluster-info", "version",
     "config", "api-resources", "api-versions", "top"}

DangerousPatternMatches(cmd) ==
    \E i \in 1..(Len(cmd) - 1) : EndsDangerous(Lower(cmd[i]))

ShellCharPresent(cmd) == \E i \in 1..Len(cmd) : HasShellChar(cmd[i])

\* is_safe_kubectl_command with the allow-list test left out
is_safe_no_allow_list(cmd) ==
    LET parts == ShlexSplit(LowerAll(cmd))
        rest  == IF parts # <<>> /\ parts[1] = <<"kubectl">> THEN Tail(parts) ELSE parts
    IN /\ rest # <<>>
       /\ ~DangerousPatternMatches(cmd)
       /\ ~ShellCharPresent(cmd)

\* KubernetesService._is_safe_kubectl_command, for a command shlex can split
is_safe_kubectl_command(cmd) ==
    LET parts == ShlexSplit(LowerAll(cmd))
        rest  == IF parts # <<>> /\ parts[1] = <<"kubectl">> THEN Tail(parts) ELSE parts
    IN /\ rest # <<>>
       /\ Len(rest[1]) = 1
       /\ rest[1][1] \in allowed_kubectl_commands
       /\ ~DangerousPatternMatches(cmd)
       /\ ~ShellCharPresent(cmd)

(***************************************************************************)
(* The cluster, the API requests and the results.                          *)
(***************************************************************************)
Range(f) == {f[i] : i \in DOMAIN f}

\* the pods the API server holds, from their phases
PodsOf(cluster) == [i \in 1..Len(cluster) |-> [id |-> i, phase |-> cluster[i]]]

ApiCall(op, ns, fs, name) ==
    [op |-> op, namespace |-> ns, field_selector |-> fs, name |-> name]

\* The outcome of one exchange with the API server.
ApiOutcomes == {"ok", "ApiException", "Exception"}
\* The outcome of subprocess.run.
SubprocessOutcomes == {"ok", "nonzero", "TimeoutExpired"}

\* namespace = parts[i + 1] for the first -n / --namespace that has a successor
NamespaceOf(cmd, default) ==
    LET i == IndexOf(cmd, {"-n", "--namespace"}, 1) IN
    IF i # 0 /\ i < Len(cmd) THEN cmd[i + 1] ELSE default

\* command.split("--field-selector=")[1].split()[0].strip('\'"')
FieldSelectorOf(cmd) ==
    LET i == IndexOf(cmd, {t \in Range(cmd) : HasFieldSelector(t)}, 1) IN
    IF i = 0 THEN "" ELSE FieldSelectorValue(cmd[i])

\* The chain of comparisons of lines 308-317 (the same in both revisions).
ClientSideFilter(items, client_side_filter) ==
    IF client_side_filter = "status.phase!=Running"
    THEN SelectSeq(items, LAMBDA pod : pod.phase # "Running")
    ELSE IF client_side_filter = "status.phase!=Succeeded"
    THEN SelectSeq(items, LAMBDA pod : pod.phase # "Succeeded")
    ELSE IF client_side_filter = "status.phase!=Failed"
    THEN SelectSeq(items, LAMBDA pod : pod.phase # "Failed")
    ELSE LET exclude_status == AfterNotEqual(client_side_filter) IN
         SelectSeq(items, LAMBDA pod : pod.phase # exclude_status)

\* What the API server returns for a pod list: a != selector that it
\* receives is applied only by a server that honours it.
ServerList(cluster, field_selector, honours) ==
    LET excluded == IF field_selector = "status.phase!=Running,status.phase!=Pending"
                    THEN {"Running", "Pending"}
                    ELSE {AfterNotEqual(field_selector)}
    IN IF field_selector # "" /\ honours
       THEN SelectSeq(PodsOf(cluster), LAMBDA pod : pod.phase \notin excluded)
       ELSE PodsOf(cluster)

\* _get_pods in which a -n / --namespace value wins over --all-namespaces
get_pods_namespace_first(cmd, fmt, cluster, honours, outcome) ==
    LET all_namespaces == /\ "--all-namespaces" \in Range(cmd)
                          /\ ~HasFlagWithBlank(cmd, {"-n", "--namespace"})
        namespace ==
            IF HasFlagWithBlank(cmd, {"-n", "--namespace"})
            THEN NamespaceOf(cmd, "default") ELSE "default"
        value == FieldSelectorOf(cmd)
        client_side_filter == IF IsPhaseNotEqual(value) THEN value ELSE ""
        field_selector     == IF IsPhaseNotEqual(value) THEN "" ELSE value
        call == IF all_namespaces
                THEN ApiCall("list_pod_for_all_namespaces", "", field_selector, "")
                ELSE ApiCall("list_namespaced_pod", namespace, field_selector, "")
        fetched == ServerList(cluster, field_selector, honours)
        items == IF client_side_filter # ""
                 THEN ClientSideFilter(fetched, client_side_filter)
                 ELSE fetched
    IN [api_calls |-> <<call>>,
        result |->
            IF outcome = "ApiException" THEN KResult("Error getting pods", "", <<>>, fmt)
            ELSE IF outcome = "Exception"
                 THEN KResult("Error executing kubectl command", "", <<>>, fmt)
            ELSE KResult("pods",
                         IF client_side_filter # "" THEN "Filtered client-side" ELSE "",
                         items, fmt)]

\* KubernetesService._get_pods of app/services/kubernetes.py
get_pods(cmd, fmt, cluster, honours, outcome) ==
    LET all_namespaces == "--all-namespaces" \in Range(cmd)
        namespace ==
            IF ~all_namespaces /\ HasFlagWithBlank(cmd, {"-n", "--namespace"})
            THEN NamespaceOf(cmd, "default") ELSE "default"
        value == FieldSelectorOf(cmd)
        client_side_filter == IF IsPhaseNotEqual(value) THEN value ELSE ""
        field_selector     == IF IsPhaseNotEqual(value) THEN "" ELSE value
        call == IF all_namespaces
                THEN ApiCall("list_pod_for_all_namespaces", "", field_selector, "")
                ELSE ApiCall("list_namespaced_pod", namespace, field_selector, "")
        fetched == ServerList(cluster, field_selector, honours)
        items == IF client_side_filter # ""
                 THEN ClientSideFilter(fetched, client_side_filter)
                 ELSE fetched
    IN [api_calls |-> <<call>>,
        result |->
            IF outcome = "ApiException" THEN KResult("Error getting pods", "", <<>>, fmt)
            ELSE IF outcome = "Exception"
                 THEN KResult("Error executing kubectl command", "", <<>>, fmt)
            ELSE KResult("pods",
                         IF client_side_filter # "" THEN "Filtered client-side" ELSE "",
                         items, fmt)]

\* KubernetesService._describe_pod of app/services/kubernetes.py
describe_pod(cmd, fmt, outcome) ==
    LET k == IF "pod" \in Range(cmd) THEN IndexOf(cmd, {"pod"}, 1)
             ELSE IndexOf(cmd, {"pods"}, 1)
        pod_name == IF k # 0 /\ k < Len(cmd) /\ ~StartsWithDash(cmd[k + 1])
                    THEN cmd[k + 1] ELSE ""
        namespace == NamespaceOf(cmd, "default")
    IN IF pod_name = ""
       THEN [api_calls |-> <<>>,
             result |-> KResult("Error: Pod name not found", "", <<>>, fmt)]
       ELSE IF outcome = "ok"
       THEN [api_calls |-> <<ApiCall("read_namespaced_pod", namespace, "", pod_name),
                             ApiCall("list_namespaced_event", namespace, "", pod_name)>>,
             result |-> KResult("Pod Description", "", <<>>, fmt)]
       ELSE [api_calls |-> <<ApiCall("read_namespaced_pod", namespace, "", pod_name)>>,
             result |-> IF outcome = "ApiException"
                        THEN KResult("Error describing pod", "", <<>>, fmt)
                        ELSE KResult("Error executing kubectl command", "", <<>>, fmt)]

\* the last part that the loop of _get_logs takes as pod name ("" if none)
RECURSIVE LogsPodName(_, _, _)
LogsPodName(cmd, i, pod_name) ==
    IF i > Len(cmd) THEN pod_name
    ELSE IF cmd[i] \in {"-n", "--namespace"} /\ i < Len(cmd)
         THEN LogsPodName(cmd, i + 1, pod_name)
    ELSE IF /\ cmd[i] \notin {"kubectl", "logs", "-n", "--namespace"}
            /\ ~StartsWithDashDash(cmd[i])
            /\ i > 1
            /\ cmd[i - 1] \notin {"-n", "--namespace"}
         THEN LogsPodName(cmd, i + 1, cmd[i])
    ELSE LogsPodName(cmd, i + 1, pod_name)

\* the namespace the loop of _get_logs ends with: the last -n that has a successor
RECURSIVE LogsNamespace(_, _, _)
LogsNamespace(cmd, i, namespace) ==
    IF i > Len(cmd) THEN namespace
    ELSE IF cmd[i] \in {"-n", "--namespace"} /\ i < Len(cmd)
         THEN LogsNamespace(cmd, i + 1, cmd[i + 1])
    ELSE LogsNamespace(cmd, i + 1, namespace)

\* the loop of _get_logs reaches int() on a --tail= value that is no number:
\* every part is visited, and the only test before startswith("--tail=") is
\* the one for -n / --namespace
TailRaises(cmd) == \E i \in 1..Len(cmd) : IsBadTail(cmd[i])

\* KubernetesService._get_logs of app/services/kubernetes.py; the ValueError
\* of int() is caught at line 139 of execute_kubectl_command
get_logs(cmd, fmt, outcome) ==
    LET found == LogsPodName(cmd, 1, "")
        pod_name == IF found # "" THEN found
                    ELSE IF cmd # <<>> /\ ~StartsWithDash(cmd[Len(cmd)])
                         THEN cmd[Len(cmd)] ELSE ""
        namespace == LogsNamespace(cmd, 1, "default")
    IN IF TailRaises(cmd)
       THEN [api_calls |-> <<>>,
             result |-> KResult("Error executing kubectl command", "", <<>>, fmt)]
       ELSE IF pod_name = ""
       THEN [api_calls |-> <<>>,
             result |-> KResult("Error: Pod name is required", "", <<>>, fmt)]
       ELSE [api_calls |-> <<ApiCall("read_namespaced_pod_log", namespace, "", pod_name)>>,
             result |-> IF outcome = "ok" THEN KResult("Logs for pod", "", <<>>, fmt)
                        ELSE IF outcome = "ApiException"
                             THEN KResult("Error getting logs", "", <<>>, fmt)
                        ELSE KResult("Error executing kubectl command", "", <<>>, fmt)]

\* Lines 99-132 of execute_kubectl_command: the handler a command is routed to.
Route(cmd) ==
    LET parts0 == LowerAll(cmd)
        parts == IF parts0 # <<>> /\ parts0[1] = "kubectl" THEN Tail(parts0) ELSE parts0
        verb == parts[1]
        resource == IF Len(parts) > 1 THEN parts[2] ELSE ""
    IN
    IF parts0 = <<>> THEN "Error: Empty command"
    ELSE IF parts = <<>> THEN "Error: No command specified"
    ELSE IF verb = "get" /\ resource \in {"pods", "pod"} THEN "get_pods"
    ELSE IF verb = "get" /\ resource \in {"services", "svc", "service"} THEN "get_services"
    ELSE IF verb = "get" /\ resource \in {"deployments", "deploy", "deployment"}
         THEN "get_deployments"
    ELSE IF verb = "get" /\ resource \in {"namespaces", "ns", "namespace"} THEN "get_namespaces"
    ELSE IF verb = "get" /\ resource \in {"nodes", "node"} THEN "get_nodes"
    ELSE IF verb = "describe" /\ resource \in {"pod", "pods"} THEN "describe_pod"
    ELSE IF verb = "logs" THEN "get_logs"
    ELSE "fallthrough"

\* KubernetesService._execute_kubectl_via_subprocess: the value returned and
\* the argv handed to subprocess.run; "raise" when shlex.split raises in
\* _is_safe_kubectl_command, which is called outside the try.
execute_kubectl_via_subprocess(cmd, fmt, outcome) ==
    IF ShlexRaises(LowerAll(cmd))
    THEN [subprocess_runs |-> <<>>, result |-> KResult("raise ValueError", "", <<>>, fmt)]
    ELSE IF ~is_safe_kubectl_command(cmd)
    THEN [subprocess_runs |-> <<>>,
          result |-> KResult("Error: not allowed for security reasons", "", <<>>, fmt)]
    ELSE LET parts == ShlexSplit(cmd)
             argv  == IF parts = <<>> \/ LowerAll(parts[1]) # <<"kubectl">>
                      THEN <<(<<"kubectl_path">>)>> \o parts
                      ELSE <<(<<"kubectl_path">>)>> \o Tail(parts)
             full  == IF fmt \in {"json", "yaml"}
                      THEN argv \o <<(<<"--output">>), (<<fmt>>)>>
                      ELSE argv
         IN [subprocess_runs |-> <<full>>,
             result |-> IF outcome = "ok" THEN KResult("kubectl Command", "", <<>>, fmt)
                        ELSE IF outcome = "nonzero"
                             THEN KResult("Error executing command", "", <<>>, fmt)
                        ELSE KResult("Error: timed out", "", <<>>, fmt)]

\* KubernetesService._get_nodes (and the other argument-free list handlers)
get_nodes(fmt, outcome) ==
    [api_calls |-> <<ApiCall("list_node", "", "", "")>>,
     result |-> IF outcome = "ok" THEN KResult("nodes", "", <<>>, fmt)
                ELSE IF outcome = "ApiException"
                     THEN KResult("Error getting nodes", "", <<>>, fmt)
                ELSE KResult("Error executing kubectl command", "", <<>>, fmt)]

(***************************************************************************)
(* The revision in mattermost-bot/main.py.                                 *)
(***************************************************************************)
\* "<a> <b>" in command, for two whole tokens
HasAdjacent(cmd, a, b) ==
    \E i \in 1..(Len(cmd) - 1) : cmd[i] = a /\ cmd[i + 1] = b

\* "logs" in command
LogsInCommand(cmd) == \E i \in 1..Len(cmd) : HasLogs(cmd[i])

\* Lines 138-162: the handlers of the commands the client cannot run.
BotSpecialRoute(verb) ==
    IF verb = "cluster-info" THEN "cluster_info"
    ELSE IF verb = "version" THEN "get_version"
    ELSE IF verb = "config" THEN "config"
    ELSE "attempted"

\* Lines 83-162 of the bot's execute_kubectl_command.
RouteBot(cmd) ==
    LET parts == LowerAll(cmd)
        verb == parts[1]
        resource == IF Len(parts) > 1 THEN parts[2] ELSE ""
    IN
    IF parts = <<>> THEN "Error: Empty command"
    ELSE IF verb = "get"
         THEN IF resource \in {"pods", "pod"} THEN "get_pods"
              ELSE IF resource \in {"nodes", "node"} THEN "get_nodes"
              ELSE BotSpecialRoute(verb)
    ELSE IF verb = "describe"
         THEN IF resource \in {"pod", "pods"} THEN "describe_pod" ELSE "unsupported"
    ELSE IF verb = "logs" THEN "get_logs"
    ELSE IF HasAdjacent(parts, "describe", "pods") \/ HasAdjacent(parts, "describe", "pod")
         THEN "describe_pod"
    ELSE IF HasAdjacent(cmd, "get", "pods") THEN "get_pods"
    ELSE IF HasAdjacent(cmd, "get", "nodes") THEN "get_nodes"
    ELSE IF LogsInCommand(cmd) THEN "get_logs"
    ELSE BotSpecialRoute(verb)

\* The bot's _get_pods: the selector goes to the server; the list is fetched
\* again and filtered here only for status.phase!=Running when Running pods
\* came back.
get_pods_bot(cmd, fmt, cluster, honours, outcome) ==
    LET all_namespaces == "--all-namespaces" \in Range(cmd)
        namespace ==
            IF ~all_namespaces /\ HasFlagWithBlank(cmd, {"-n", "--namespace"})
            THEN NamespaceOf(cmd, "default") ELSE "default"
        field_selector == FieldSelectorOf(cmd)
        client_side_filter == IF IsPhaseNotEqual(field_selector) THEN field_selector ELSE ""
        op == IF all_namespaces THEN "list_pod_for_all_namespaces" ELSE "list_namespaced_pod"
        ns == IF all_namespaces THEN "" ELSE namespace
        first == ServerList(cluster, field_selector, honours)
        refetch == /\ client_side_filter \in
                          {"status.phase!=Running",
                           "status.phase!=Running,status.phase!=Pending"}
                   /\ \E i \in 1..Len(first) : first[i].phase = "Running"
        items == IF refetch
                 THEN ClientSideFilter(ServerList(cluster, "", honours), client_side_filter)
                 ELSE first
        has_excluded_status ==
            \E i \in 1..Len(items) : items[i].phase = AfterNotEqual(client_side_filter)
        note == IF client_side_filter # "" /\ items = <<>>
                THEN "No pods found matching the filter criteria"
                ELSE IF client_side_filter # "" /\ ~has_excluded_status
                     THEN "Filtered client-side"
                ELSE ""
    IN [api_calls |->
            IF outcome = "ok" /\ refetch
            THEN <<ApiCall(op, ns, field_selector, ""), ApiCall(op, ns, "", "")>>
            ELSE <<ApiCall(op, ns, field_selector, "")>>,
        result |-> IF outcome = "ok" THEN KResult("pods", note, items, fmt)
                   ELSE KResult("Error getting pods", "", <<>>, fmt)]

\* the scan of the bot's _describe_pod from index i on
RECURSIVE DescribeScanBot(_, _, _)
DescribeScanBot(cmd, i, namespace) ==
    IF i > Len(cmd) THEN [pod_name |-> "", namespace |-> namespace]
    ELSE IF cmd[i] \in {"-n", "--namespace"} /\ i < Len(cmd)
         THEN DescribeScanBot(cmd, i + 2, cmd[i + 1])
    ELSE IF ~StartsWithDash(cmd[i])
         THEN [pod_name |-> cmd[i], namespace |-> namespace]
    ELSE DescribeScanBot(cmd, i + 1, namespace)

\* index after the leading run of "kubectl" / "describe" / "pod"
RECURSIVE SkipKeywords(_, _)
SkipKeywords(cmd, i) ==
    IF i <= Len(cmd) /\ cmd[i] \in {"kubectl", "describe", "pod"}
    THEN SkipKeywords(cmd, i + 1) ELSE i

describe_pod_bot(cmd, fmt, outcome) ==
    LET found == DescribeScanBot(cmd, SkipKeywords(cmd, 1), "noticeboard") IN
    IF found.pod_name = ""
    THEN [api_calls |-> <<>>,
          result |-> KResult("Error: Pod name is required", "", <<>>, fmt)]
    ELSE [api_calls |-> <<ApiCall("read_namespaced_pod", found.namespace, "", found.pod_name)>>,
          result |-> IF outcome = "ok" THEN KResult("Pod Description", "", <<>>, fmt)
                     ELSE KResult("Error describing pod", "", <<>>, fmt)]

\* the loop of the bot's _get_logs: it stops at the first part taken as pod name
RECURSIVE LogsScanBot(_, _, _)
LogsScanBot(cmd, i, namespace) ==
    IF i > Len(cmd) THEN [pod_name |-> "", namespace |-> namespace, raised |-> FALSE]
    ELSE IF cmd[i] \in {"-n", "--namespace"} /\ i < Len(cmd)
         THEN LogsScanBot(cmd, i + 1, cmd[i + 1])
    ELSE IF IsBadTail(cmd[i])
         THEN [pod_name |-> "", namespace |-> namespace, raised |-> TRUE]
    ELSE IF cmd[i] \notin {"get", "logs", "-n", "--namespace"} /\ ~StartsWithDashDash(cmd[i])
         THEN [pod_name |-> cmd[i], namespace |-> namespace, raised |-> FALSE]
    ELSE LogsScanBot(cmd, i + 1, namespace)

get_logs_bot(cmd, fmt, outcome) ==
    LET found == LogsScanBot(cmd, 1, "default") IN
    IF found.raised
    THEN [api_calls |-> <<>>,
          result |-> KResult("Error executing kubectl command", "", <<>>, fmt)]
    ELSE IF found.pod_name = ""
    THEN [api_calls |-> <<>>,
          result |-> KResult("Error: Pod name is required", "", <<>>, fmt)]
    ELSE [api_calls |->
              <<ApiCall("read_namespaced_pod_log", found.namespace, "", found.pod_name)>>,
          result |-> IF outcome = "ok" THEN KResult("Logs for pod", "", <<>>, fmt)
                     ELSE IF outcome = "ApiException"
                          THEN KResult("Error getting logs", "", <<>>, fmt)
                     ELSE KResult("Error executing kubectl command", "", <<>>, fmt)]

\* the bot's _get_version: one GET /version, every failure swallowed
get_version_bot(fmt) ==
    [api_calls |-> <<ApiCall("call_api /version", "", "", "")>>,
     result |-> KResult("Kubernetes Version Information", "", <<>>, fmt)]

(***************************************************************************)
(* SpecK8s: execute_kubectl_command of either revision on every command of *)
(* an optional "kubectl", a verb and at most MaxArgs further tokens,       *)
(* against every cluster of at most MaxPods pods.                          *)
(***************************************************************************)
MaxArgs == 2
MaxPods == 5

RECURSIVE ArgSeqs(_)
ArgSeqs(n) ==
    IF n = 0 THEN {<<>>}
    ELSE LET shorter == ArgSeqs(n - 1) IN
         shorter \cup {a \o <<x>> : a \in shorter, x \in Args}

\* ... and "get pods" with both namespace flags, in either order
CommandsOf(n) ==
    {<<>>, <<"kubectl">>}
    \cup {pre \o <<v>> \o a : pre \in {<<>>, <<"kubectl">>}, v \in Verbs, a \in ArgSeqs(n)}
    \cup {pre \o <<"get", "pods">> \o flags :
             pre \in {<<>>, <<"kubectl">>},
             flags \in {<<"--all-namespaces", "-n", "logstash-0">>,
                        <<"-n", "logstash-0", "--all-namespaces">>,
                        <<"--field-selector=status.phase!=Running,status.phase!=Pending">>}}
    \cup {pre \o <<"describe", "pod">> \o rest :
             pre \in {<<>>, <<"kubectl">>},
             rest \in {<<"logstash-0">>,
                       <<"logstash-0", "-n", "kube-system">>,
                       <<"-n", "kube-system", "logstash-0">>}}

\* the pods of a cluster by phase: r Running pods, then p Pending ones
Clusters ==
    {[i \in 1..(r + p) |-> IF i <= r THEN "Running" ELSE "Pending"] :
        r \in 0..MaxPods, p \in 0..MaxPods} \cap
    UNION {[1..n -> {"Running", "Pending"}] : n \in 0..MaxPods}

InitK8s ==
    /\ command \in CommandsOf(MaxArgs)
    /\ format_type \in {"table", "yaml"}
    /\ revision \in {"app", "bot"}
    /\ client_initialized \in BOOLEAN
    /\ enable_subprocess \in (IF revision = "app" THEN BOOLEAN ELSE {FALSE})
    /\ pods = <<>> /\ server_honours = FALSE /\ api_outcome = "ok"
    /\ api_calls = <<>> /\ subprocess_runs = <<>>
    /\ k8s_result = NoKResult /\ kpc = "start"
    /\ DiscIdle
    /\ HookIdle
    /\ SvcIdle

\* execute_kubectl_command returns (or raises) r after the given requests
Return(r, requests, runs) ==
    /\ k8s_result' = r
    /\ api_calls' = requests
    /\ subprocess_runs' = runs
    /\ kpc' = "done"
    /\ UNCHANGED <<command, format_type, revision, client_initialized,
                   enable_subprocess, discVars, hookVars, svcVars>>

NoCluster == UNCHANGED <<pods, server_honours, api_outcome>>

Answered(outcome) == api_outcome' = outcome /\ UNCHANGED <<pods, server_honours>>

AppReady == kpc = "start" /\ revision = "app" /\ client_initialized
BotReady == kpc = "start" /\ revision = "bot" /\ client_initialized

\* app, lines 91-96: no client and no subprocess fallback
ClientUnavailable ==
    /\ kpc = "start" /\ revision = "app"
    /\ ~client_initialized /\ ~enable_subprocess
    /\ Return(KResult("Kubernetes Client Not Available", "", <<>>, format_type), <<>>, <<>>)
    /\ NoCluster

\* app, line 94: no client, the command goes to the subprocess fallback;
\* an exception raised there leaves execute_kubectl_command
SubprocessNoClient ==
    /\ kpc = "start" /\ revision = "app"
    /\ ~client_initialized /\ enable_subprocess
    /\ \E outcome \in SubprocessOutcomes :
         LET r == execute_kubectl_via_subprocess(command, format_type, outcome) IN
         /\ r.subprocess_runs = <<>> => outcome = "ok"
         /\ Return(r.result, <<>>, r.subprocess_runs)
    /\ NoCluster

\* app, lines 103-111
EmptyCommand ==
    /\ AppReady
    /\ Route(command) \in {"Error: Empty command", "Error: No command specified"}
    /\ Return(KResult(Route(command), "", <<>>, format_type), <<>>, <<>>)
    /\ NoCluster

\* app, line 119: get pods
GetPods ==
    /\ AppReady
    /\ Route(command) = "get_pods"
    /\ \E cluster \in Clusters, honours \in BOOLEAN, outcome \in ApiOutcomes :
         LET r == get_pods(command, format_type, cluster, honours, outcome) IN
         /\ pods' = cluster
         /\ server_honours' = honours
         /\ api_outcome' = outcome
         /\ Return(r.result, r.api_calls, <<>>)

\* app, lines 120-127: the other list handlers
GetNodes ==
    /\ AppReady
    /\ Route(command) \in {"get_services", "get_deployments", "get_namespaces", "get_nodes"}
    /\ \E outcome \in ApiOutcomes :
         LET r == get_nodes(format_type, outcome) IN
         /\ Answered(outcome)
         /\ Return(r.result, r.api_calls, <<>>)

\* app, line 130
DescribePod ==
    /\ AppReady
    /\ Route(command) = "describe_pod"
    /\ \E outcome \in ApiOutcomes :
         LET r == describe_pod(command, format_type, outcome) IN
         /\ r.api_calls = <<>> => outcome = "ok"
         /\ Answered(outcome)
         /\ Return(r.result, r.api_calls, <<>>)

\* app, line 132
GetLogs ==
    /\ AppReady
    /\ Route(command) = "get_logs"
    /\ \E outcome \in ApiOutcomes :
         LET r == get_logs(command, format_type, outcome) IN
         /\ r.api_calls = <<>> => outcome = "ok"
         /\ Answered(outcome)
         /\ Return(r.result, r.api_calls, <<>>)

\* app, line 135: no handler, subprocess fallback inside the try; what it
\* raises is caught at line 139
SubprocessFallthrough ==
    /\ AppReady
    /\ Route(command) = "fallthrough"
    /\ enable_subprocess
    /\ \E outcome \in SubprocessOutcomes :
         LET r == execute_kubectl_via_subprocess(command, format_type, outcome) IN
         /\ r.subprocess_runs = <<>> => outcome = "ok"
         /\ Return(IF r.result.kind = "raise ValueError"
                   THEN KResult("Error executing kubectl command", "", <<>>, format_type)
                   ELSE r.result,
                   <<>>, r.subprocess_runs)
    /\ NoCluster

\* app, line 137
Unsupported ==
    /\ AppReady
    /\ Route(command) = "fallthrough"
    /\ ~enable_subprocess
    /\ Return(KResult("Command Not Supported", "", <<>>, format_type), <<>>, <<>>)
    /\ NoCluster

\* bot, lines 74-75 and 85-86
BotNoClientOrEmpty ==
    /\ kpc = "start" /\ revision = "bot"
    /\ ~client_initialized \/ RouteBot(command) = "Error: Empty command"
    /\ Return(KResult(IF ~client_initialized
                      THEN "Error: Kubernetes client is not initialized"
                      ELSE "Error: Empty command", "", <<>>, format_type), <<>>, <<>>)
    /\ NoCluster

\* bot, lines 95 and 122
BotGetPods ==
    /\ BotReady
    /\ RouteBot(command) = "get_pods"
    /\ \E cluster \in Clusters, honours \in BOOLEAN, outcome \in ApiOutcomes :
         LET r == get_pods_bot(command, format_type, cluster, honours, outcome) IN
         /\ pods' = cluster
         /\ server_honours' = honours
         /\ api_outcome' = outcome
         /\ Return(r.result, r.api_calls, <<>>)

\* bot, lines 96-103 and 123-130
BotGetNodes ==
    /\ BotReady
    /\ RouteBot(command) = "get_nodes"
    /\ \E outcome \in ApiOutcomes :
         LET r == get_nodes(format_type, outcome) IN
         /\ Answered(outcome)
         /\ Return(r.result, r.api_calls, <<>>)

\* bot, lines 108, 118 and 132
BotDescribePod ==
    /\ BotReady
    /\ RouteBot(command) = "describe_pod"
    /\ \E outcome \in ApiOutcomes :
         LET r == describe_pod_bot(command, format_type, outcome) IN
         /\ r.api_calls = <<>> => outcome = "ok"
         /\ Answered(outcome)
         /\ Return(r.result, r.api_calls, <<>>)

\* bot, lines 114 and 134
BotGetLogs ==
    /\ BotReady
    /\ RouteBot(command) = "get_logs"
    /\ \E outcome \in ApiOutcomes :
         LET r == get_logs_bot(command, format_type, outcome) IN
         /\ r.api_calls = <<>> => outcome = "ok"
         /\ Answered(outcome)
         /\ Return(r.result, r.api_calls, <<>>)

\* bot, line 141
BotGetVersion ==
    /\ BotReady
    /\ RouteBot(command) = "get_version"
    /\ LET r == get_version_bot(format_type) IN Return(r.result, r.api_calls, <<>>)
    /\ NoCluster

\* bot, line 139 and _get_cluster_info: the nodes and the namespaces are
\* listed and counted; what either listing raises becomes a line of the
\* summary
BotGetClusterInfo ==
    /\ BotReady
    /\ RouteBot(command) = "cluster_info"
    /\ \E outcome \in ApiOutcomes :
         /\ Answered(outcome)
         /\ Return(KResult("Cluster Information", "", <<>>, format_type),
                   <<ApiCall("list_node", "", "", ""),
                     ApiCall("list_namespace", "", "", "")>>, <<>>)

\* bot, lines 110 and 150-162: the messages for what the client cannot run
BotUnsupported ==
    /\ BotReady
    /\ RouteBot(command) \in {"unsupported", "attempted"}
    /\ Return(KResult(IF RouteBot(command) = "unsupported"
                      THEN "is not directly supported"
                      ELSE "Attempted", "", <<>>, format_type), <<>>, <<>>)
    /\ NoCluster

NextK8s ==
    \/ ClientUnavailable
    \/ SubprocessNoClient
    \/ EmptyCommand
    \/ GetPods
    \/ GetNodes
    \/ DescribePod
    \/ GetLogs
    \/ SubprocessFallthrough
    \/ Unsupported
    \/ BotNoClientOrEmpty
    \/ BotGetPods
    \/ BotGetNodes
    \/ BotDescribePod
    \/ BotGetLogs
    \/ BotGetVersion
    \/ BotGetClusterInfo
    \/ BotUnsupported

SpecK8s == InitK8s /\ [][NextK8s]_vars

(***************************************************************************)
(* Claims about the cluster adapter (checked under SpecK8s).               *)
(***************************************************************************)
Returned == kpc = "done"

\* the verb of a command: its first token after an optional leading "kubectl"
ParsedVerb(cmd) ==
    LET parts == LowerAll(cmd)
        rest  == IF parts # <<>> /\ parts[1] = "kubectl" THEN Tail(parts) ELSE parts
    IN IF rest = <<>> THEN "" ELSE rest[1]

MutatingVerbs ==
    {"delete", "apply", "create", "patch", "edit", "exec", "cp", "auth", "scale"}

NoBackendCall == api_calls = <<>> /\ subprocess_runs = <<>>

\* C2: in the app revision a command whose verb is a mutating verb issues no
\* cluster API operation and starts no kubectl subprocess, whatever the
\* output format, the client availability and the subprocess setting.
C2_MutatingVerbNoBackend ==
    (Returned /\ revision = "app" /\ ParsedVerb(command) \in MutatingVerbs)
        => NoBackendCall

\* "kubectl delete ..." with the subprocess fallback enabled and no client was
\* turned down with the security message
C2_Witness ==
    /\ Returned /\ revision = "app"
    /\ Len(command) > 2 /\ command[1] = "kubectl" /\ command[2] = "delete"
    /\ enable_subprocess /\ ~client_initialized /\ format_type = "yaml"
    /\ k8s_result.kind = "Error: not allowed for security reasons"
    /\ NoBackendCall

\* the command went to _execute_kubectl_via_subprocess
ReachedSubprocess ==
    /\ Returned /\ revision = "app" /\ enable_subprocess
    /\ ~client_initialized \/ Route(command) = "fallthrough"

\* the three checks, read off the command text
ChecksPass(cmd) ==
    /\ ParsedVerb(cmd) \in allowed_kubectl_commands
    /\ ~DangerousPatternMatches(cmd)
    /\ ~ShellCharPresent(cmd)

\* C3: on every path that reaches the subprocess fallback kubectl is run only
\* if the three checks pass, and if one fails the security-rejection message
\* is returned and no subprocess is started.
C3_SubprocessChecks ==
    ReachedSubprocess =>
        /\ subprocess_runs # <<>> => ChecksPass(command)
        /\ ~ChecksPass(command) =>
              /\ subprocess_runs = <<>>
              /\ k8s_result.kind = "Error: not allowed for security reasons"

\* the half of C3 that the code keeps: kubectl runs only if the checks pass
C3_RunsOnlyIfChecksPass ==
    ReachedSubprocess => (subprocess_runs # <<>> => ChecksPass(command))

\* C4: a command whose verb is outside the allowed set causes no backend
\* call, whatever else its text contains (both revisions).
C4_UnsupportedVerbNoBackend ==
    (Returned /\ ParsedVerb(command) \notin allowed_kubectl_commands)
        => NoBackendCall

\* C4 restricted to the app revision
C4_AppRevision ==
    (Returned /\ revision = "app" /\ ParsedVerb(command) \notin allowed_kubectl_commands)
        => NoBackendCall

\* a pod list was returned for a command carrying status.phase!=P
ListedWithPhaseSelector ==
    /\ Returned /\ k8s_result.kind = "pods"
    /\ IsPhaseNotEqual(FieldSelectorOf(command))

ExcludedPhase == AfterNotEqual(FieldSelectorOf(command))

\* C7: for status.phase!=P no request carries the selector, and the result
\* is exactly the pods whose phase is not P, with the client-side-filter
\* annotation (both revisions).
C7_ClientSidePhaseFilter ==
    ListedWithPhaseSelector =>
        /\ api_calls # <<>>
        /\ \A i \in 1..Len(api_calls) : api_calls[i].field_selector = ""
        /\ k8s_result.items =
              SelectSeq(PodsOf(pods), LAMBDA pod : pod.phase # ExcludedPhase)
        /\ k8s_result.note = "Filtered client-side"

\* C7 restricted to the app revision
C7_AppRevision == revision = "app" => C7_ClientSidePhaseFilter

\* the fixture of C7 in the app revision: 3 Running and 2 Pending pods,
\* status.phase!=Running, the 2 Pending pods returned
C7_AppFixture ==
    /\ revision = "app" /\ ListedWithPhaseSelector
    /\ pods = <<"Running", "Running", "Running", "Pending", "Pending">>
    /\ ExcludedPhase = "Running"
    /\ Len(k8s_result.items) = 2
    /\ k8s_result.note = "Filtered client-side"

\* C11: execute_kubectl_command of the app revision never raises: whatever
\* the command, the format, the client and subprocess settings and the
\* backend's failure, it returns a message.
C11_NeverRaises ==
    revision = "app" /\ Returned => k8s_result.kind # "raise ValueError"

\* C11 with an initialised client: every exception is raised inside the
\* try of lines 98-140 and returned as a message
C11_NeverRaisesWithClient ==
    revision = "app" /\ client_initialized /\ Returned =>
        k8s_result.kind # "raise ValueError"

\* a malformed command or a failing backend answered with a message
C11_MessageForFault ==
    /\ revision = "app" /\ client_initialized /\ Returned
    /\ \/ TailRaises(command) /\ Route(command) = "get_logs"
       \/ api_outcome = "Exception" /\ api_calls # <<>>
    /\ k8s_result.kind = "Error executing kubectl command"

\* C18: "get pods" with --all-namespaces, with a client, is served by the
\* all-namespaces list operation alone and no namespace is handed to the
\* API, also when the command carries -n <value> before or after the flag;
\* without a field selector every pod of the cluster is in the result.
C18_AllNamespacesWins ==
    LET parts == LowerAll(command)
        rest  == IF parts # <<>> /\ parts[1] = "kubectl" THEN Tail(parts) ELSE parts
    IN
    (/\ Returned /\ client_initialized
     /\ Len(rest) >= 2 /\ rest[1] = "get" /\ rest[2] \in {"pods", "pod"}
     /\ "--all-namespaces" \in Range(command)) =>
        /\ api_calls # <<>>
        /\ \A i \in 1..Len(api_calls) :
              /\ api_calls[i].op = "list_pod_for_all_namespaces"
              /\ api_calls[i].namespace = ""
        /\ api_outcome = "ok" =>
              /\ k8s_result.kind = "pods"
              /\ FieldSelectorOf(command) = "" => Len(k8s_result.items) = Len(pods)

\* 'get pods -n logstash-0 --all-namespaces' listed every pod of the cluster
C18_Witness ==
    /\ Returned /\ revision = "app" /\ client_initialized
    /\ command = <<"get", "pods", "-n", "logstash-0", "--all-namespaces">>
    /\ api_calls = <<ApiCall("list_pod_for_all_namespaces", "", "", "")>>
    /\ k8s_result.kind = "pods" /\ Len(k8s_result.items) = 3 /\ Len(pods) = 3

\* the phases that the terms status.phase!=P of the command's selector name
RequestedExclusions ==
    IF FieldSelectorOf(command) = "status.phase!=Running,status.phase!=Pending"
    THEN {"Running", "Pending"}
    ELSE {AfterNotEqual(FieldSelectorOf(command))}

\* the app's _get_pods returned a pod list under the client-side-filter note
NotedPodList ==
    /\ Returned /\ revision = "app" /\ k8s_result.kind = "pods"
    /\ IsPhaseNotEqual(FieldSelectorOf(command))
    /\ k8s_result.note = "Filtered client-side"

\* C25: whenever the app's _get_pods prepends the client-side-filter note
\* for a selector with a status.phase!= term, compound selectors included,
\* no pod whose phase the selector excludes is in the reported list.
C25_NotedListExcludesPhases ==
    NotedPodList =>
        \A i \in 1..Len(k8s_result.items) :
            k8s_result.items[i].phase \notin RequestedExclusions

\* C25 for a selector that is one status.phase!=P term
C25_SingleTermSelector ==
    (NotedPodList /\ FieldSelectorOf(command) \in
        {"status.phase!=Running", "status.phase!=Pending"}) =>
        \A i \in 1..Len(k8s_result.items) :
            k8s_result.items[i].phase \notin RequestedExclusions

\* the compound selector under the note with every pod of the cluster listed
C25_CompoundUnfiltered ==
    /\ NotedPodList
    /\ FieldSelectorOf(command) = "status.phase!=Running,status.phase!=Pending"
    /\ pods = <<"Running", "Running", "Pending">>
    /\ Len(k8s_result.items) = 3

\* the command without a leading "kubectl"
Described == IF command # <<>> /\ command[1] = "kubectl" THEN Tail(command) ELSE command

\* the pod and the namespace of the first request to the cluster API
ReadsPod(name, namespace) ==
    /\ api_calls # <<>>
    /\ api_calls[1] = ApiCall("read_namespaced_pod", namespace, "", name)

\* C30: _describe_pod reads the pod name and the namespace whatever their
\* order: 'describe pod X -n NS' and 'describe pod -n NS X' both read pod X
\* in namespace NS, and 'describe pod X' reads pod X in namespace 'default'
\* (both revisions).
C30_AnyArgumentOrder ==
    (Returned /\ client_initialized) =>
        /\ Described \in {<<"describe", "pod", "logstash-0", "-n", "kube-system">>,
                          <<"describe", "pod", "-n", "kube-system", "logstash-0">>}
              => ReadsPod("logstash-0", "kube-system")
        /\ Described = <<"describe", "pod", "logstash-0">>
              => ReadsPod("logstash-0", "default")

\* C30 for the app revision with the pod name before the flag
C30_AppNameFirst ==
    (Returned /\ client_initialized /\ revision = "app") =>
        /\ Described = <<"describe", "pod", "logstash-0", "-n", "kube-system">>
              => ReadsPod("logstash-0", "kube-system")
        /\ Described = <<"describe", "pod", "logstash-0">>
              => ReadsPod("logstash-0", "default")

\* the app revision answers 'describe pod -n NS X' with the missing-name error
C30_AppFlagFirst ==
    /\ Returned /\ client_initialized /\ revision = "app"
    /\ Described = <<"describe", "pod", "-n", "kube-system", "logstash-0">>
    /\ api_calls = <<>>
    /\ k8s_result.kind = "Error: Pod name not found"

\* the command's verb is none of get, describe and logs
UnrecognizedVerb == ParsedVerb(command) \notin {"", "get", "describe", "logs"}

\* C16: with a client, a command whose verb is not recognized is answered
\* either with an informational summary for which no list operation of the
\* cluster API was called, or with the 'not supported' text that enumerates
\* the supported operations.
C16_SummaryOrNotSupported ==
    (Returned /\ client_initialized /\ UnrecognizedVerb) =>
        \/ /\ k8s_result.kind \in {"Kubernetes Version Information", "Cluster Information"}
           /\ \A i \in 1..Len(api_calls) :
                  api_calls[i].op \notin {"list_node", "list_namespace",
                                          "list_namespaced_pod",
                                          "list_pod_for_all_namespaces"}
        \/ k8s_result.kind \in {"Command Not Supported", "is not directly supported",
                                "Attempted"}

\* C16, the branch of the unrecognized verbs alone: when none of the
\* handlers of get, describe and logs is reached and no kubectl is run, the
\* answer is a summary or the 'not supported' text
C16_NoHandlerNoSubprocess ==
    (/\ Returned /\ client_initialized /\ UnrecognizedVerb /\ ~enable_subprocess
     /\ (IF revision = "app" THEN Route(command) ELSE RouteBot(command))
            \in {"fallthrough", "unsupported", "attempted", "get_version", "cluster_info"}) =>
        k8s_result.kind \in {"Kubernetes Version Information", "Cluster Information",
                             "Command Not Supported", "is not directly supported",
                             "Attempted"}

(***************************************************************************)
(* WEBHOOK DISPATCH.  An inbound text is a sequence of atoms, each a word  *)
(* without blanks or one blank; the Python string is their concatenation.  *)
(***************************************************************************)
Blank == " "

Words ==
    {"metric", "kubectl", "KUBECTL", "metric-text", "kubectl-yaml",
     "query", "query-text", "help", "HELP", "ping", "status", "pods"}

Atoms == Words \cup {Blank}

\* str.lower() of one atom
LowerAtom(a) ==
    CASE a = "KUBECTL" -> "kubectl"
      [] a = "HELP" -> "help"
      [] a = "WORKFLOW" -> "workflow"
      [] OTHER -> a

\* text.lower().startswith(prefix + " "), for a prefix that is one of Words
StartsWithDirective(t, prefix) ==
    Len(t) >= 2 /\ LowerAtom(t[1]) = prefix /\ t[2] = Blank

RECURSIVE LStripAtoms(_)
LStripAtoms(t) ==
    IF t # <<>> /\ Head(t) = Blank THEN LStripAtoms(Tail(t)) ELSE t

RECURSIVE RStripAtoms(_)
RStripAtoms(t) ==
    IF t # <<>> /\ t[Len(t)] = Blank THEN RStripAtoms(SubSeq(t, 1, Len(t) - 1)) ELSE t

\* str.strip()
StripAtoms(t) == RStripAtoms(LStripAtoms(t))

\* text.split(" ", 1)[1].strip(), for a text whose first blank stands second
AfterFirstBlank(t) == StripAtoms(SubSeq(t, 3, Len(t)))

\* process_command that knows no keyword
process_command_no_keyword(t) == None

\* CommandService.process_command: the canned answer, or None
process_command(t) ==
    LET clean_command == StripAtoms(t) IN
    IF clean_command = <<>> THEN None
    ELSE IF clean_command[1] = "help" THEN "Available commands"
    ELSE IF clean_command[1] = "ping" THEN "Pong!"
    ELSE IF clean_command[1] = "status" THEN "All systems operational"
    ELSE None

Task(fn, arg, fmt) == [fn |-> fn, arg |-> arg, format_type |-> fmt]

Dispatched(r, created) == [reply |-> r, tasks |-> created]

Ack(t) == MattermostResponse(t, "ephemeral")

\* process_webhook_request with the six prefix tests left out
process_webhook_request_without_directives(t) ==
    IF process_command(t) # None
    THEN Dispatched(MattermostResponse(process_command(t), "in_channel"), <<>>)
    ELSE Dispatched(Ack("Processing your request"),
                    <<Task("process_with_chatgpt_and_route", t, "table")>>)

\* process_webhook_request: the reply returned and the tasks created
process_webhook_request(t) ==
    IF StartsWithDirective(t, "metric")
    THEN Dispatched(Ack("Processing your Prometheus query as a table"),
                    <<Task("process_prometheus_query", AfterFirstBlank(t), "table")>>)
    ELSE IF StartsWithDirective(t, "kubectl")
    THEN Dispatched(Ack("Processing your kubectl command as a table"),
                    <<Task("process_kubernetes_command", AfterFirstBlank(t), "table")>>)
    ELSE IF StartsWithDirective(t, "metric-text")
    THEN Dispatched(Ack("Processing your Prometheus query with text formatting"),
                    <<Task("process_prometheus_query", AfterFirstBlank(t), "default")>>)
    ELSE IF StartsWithDirective(t, "kubectl-yaml")
    THEN Dispatched(Ack("Processing your kubectl command with YAML formatting"),
                    <<Task("process_kubernetes_command", AfterFirstBlank(t), "yaml")>>)
    ELSE IF StartsWithDirective(t, "query")
    THEN Dispatched(Ack("Processing your natural language query"),
                    <<Task("process_natural_language_query", AfterFirstBlank(t), "table")>>)
    ELSE IF StartsWithDirective(t, "query-text")
    THEN Dispatched(Ack("Processing your natural language query with text formatting"),
                    <<Task("process_natural_language_query", AfterFirstBlank(t), "default")>>)
    ELSE IF process_command(t) # None
    THEN Dispatched(MattermostResponse(process_command(t), "in_channel"), <<>>)
    ELSE Dispatched(Ack("Processing your request"),
                    <<Task("process_with_chatgpt_and_route", t, "table")>>)

\* one call of a backend adapter or of the language model
Call(adapter, arg, fmt) == [adapter |-> adapter, arg |-> arg, format_type |-> fmt]

\* a post attempt whose apology always goes through the channel API
PostApologyByChannel(url, response_type, kind, body, raised) ==
    [via |-> IF url /\ kind # "error" THEN "response_url" ELSE "send_response",
     response_type |-> IF url THEN response_type ELSE "in_channel",
     kind |-> kind,
     body |-> body,
     raised |-> raised]

\* one outbound post attempt: through the callback URL, or
\* MattermostService.send_response; raised tells whether the attempt raised
Post(url, response_type, kind, body, raised) ==
    [via |-> IF url THEN "response_url" ELSE "send_response",
     response_type |-> IF url THEN response_type ELSE "in_channel",
     kind |-> kind,
     body |-> body,
     raised |-> raised]

\* the try of a task without the inner try around the apology: an apology
\* that raises leaves the task
OutboundUnguarded(url, kind, body, adapter_raises, post_raises, apology_raises) ==
    LET result  == Post(url, "in_channel", kind, body, post_raises)
        apology == Post(url, "ephemeral", "error", <<>>, apology_raises)
    IN IF adapter_raises THEN [posts |-> <<apology>>, escaped |-> apology_raises]
       ELSE IF post_raises THEN [posts |-> <<result, apology>>, escaped |-> apology_raises]
       ELSE [posts |-> <<result>>, escaped |-> FALSE]

\* Lines 114-142 (the same in every task): the answer is posted; if that, or
\* the adapter before it, raises, the except clause posts an apology inside
\* a try of its own, whose except clause only logs.  posts are the attempts
\* made, escaped tells whether an exception leaves the task.
Outbound(url, kind, body, adapter_raises, post_raises, apology_raises) ==
    LET result  == Post(url, "in_channel", kind, body, post_raises)
        apology == Post(url, "ephemeral", "error", <<>>, apology_raises)
    IN IF adapter_raises THEN [posts |-> <<apology>>, escaped |-> FALSE]
       ELSE IF post_raises THEN [posts |-> <<result, apology>>, escaped |-> FALSE]
       ELSE [posts |-> <<result>>, escaped |-> FALSE]

\* the replies of the language model that the tasks are run on
LlmReplies ==
    {<<>>}
    \cup {<<l>> : l \in {"up", "kubectl get pods", "filesystem free"}}
    \cup {<<f, b, "FENCE">> : f \in {"FENCE promql", "FENCE bash", "FENCE"},
                              b \in {"up", "kubectl get pods", ""}}
    \cup {<<"FENCE promql", "up", "kubectl get pods", "FENCE">>}

\* extracted_script.split('\n')[0].strip()
FirstLineStripped(script) == IF script = <<>> THEN "" ELSE StripLine(script[1])

\* process_with_chatgpt_and_route that runs every promql fragment, empty or not
RouteReplyAnyPromql(t, chatgpt_response) ==
    LET d == detect_script_type(chatgpt_response) IN
    IF d.script_type = "promql"
    THEN [calls |-> <<Call("chatgpt", t, ""),
                      Call("prometheus", <<FirstLineStripped(d.extracted_script)>>, "table")>>,
          kind |-> "reply with results", body |-> chatgpt_response, k8s |-> FALSE]
    ELSE IF d.script_type = "kubernetes"
    THEN [calls |-> <<Call("chatgpt", t, ""),
                      Call("kubernetes", d.extracted_script, "table")>>,
          kind |-> "reply with results", body |-> chatgpt_response, k8s |-> TRUE]
    ELSE [calls |-> <<Call("chatgpt", t, "")>>, kind |-> "reply", body |-> chatgpt_response, k8s |-> FALSE]

\* Lines 251-277 of process_with_chatgpt_and_route: the calls made and the
\* kind of answer built from the model's reply
RouteReply(t, chatgpt_response) ==
    LET d == detect_script_type(chatgpt_response)
        cleaned_script == FirstLineStripped(d.extracted_script)
    IN
    IF d.script_type = "promql" /\ cleaned_script # ""
    THEN [calls |-> <<Call("chatgpt", t, ""),
                      Call("prometheus", <<cleaned_script>>, "table")>>,
          kind |-> "reply with results", body |-> chatgpt_response, k8s |-> FALSE]
    ELSE IF d.script_type = "kubernetes"
    THEN [calls |-> <<Call("chatgpt", t, ""),
                      Call("kubernetes", d.extracted_script, "table")>>,
          kind |-> "reply with results", body |-> chatgpt_response, k8s |-> TRUE]
    ELSE [calls |-> <<Call("chatgpt", t, "")>>, kind |-> "reply", body |-> chatgpt_response, k8s |-> FALSE]

\* Lines 197-220 of process_natural_language_query
RouteQuery(query, fmt, chatgpt_response) ==
    LET d == detect_script_type(chatgpt_response) IN
    IF d.script_type = "promql"
    THEN [calls |-> <<Call("chatgpt", query, "system_prompt"),
                      Call("prometheus", d.extracted_script, fmt)>>,
          kind |-> "generated script with results", body |-> d.extracted_script,
          k8s |-> FALSE]
    ELSE IF d.script_type = "kubernetes"
    THEN [calls |-> <<Call("chatgpt", query, "system_prompt"),
                      Call("kubernetes", d.extracted_script, fmt)>>,
          kind |-> "generated script with results", body |-> d.extracted_script,
          k8s |-> TRUE]
    ELSE [calls |-> <<Call("chatgpt", query, "system_prompt")>>,
          kind |-> "reply", body |-> chatgpt_response, k8s |-> FALSE]

(***************************************************************************)
(* METRICS ADAPTER.  A sample value is a decimal number of at most seven   *)
(* decimals: neg its sign, whole its integer part, frac7 its decimals in   *)
(* units of 1e-7; special is the text of a value that is no decimal        *)
(* ("NaN").                                                                *)
(***************************************************************************)
Value(neg, whole, frac7, special) ==
    [neg |-> neg, whole |-> whole, frac7 |-> frac7, special |-> special]

\* A rendered value is a record: with notation "scientific" it reads
\* d.dddddde+xx (whole the digit before the point, digits the six after it,
\* exponent xx), with "fixed" whole.digits, with "literal" the text that
\* Python prints for nan.

\* format_value without the thresholds: every number in fixed point
format_value_fixed(v) ==
    LET Digits(n, w) == [i \in 1..w |-> (n \div 10 ^ (w - i)) % 10]
        f6      == (v.frac7 + 5) \div 10
        whole   == IF f6 = 1000000 THEN v.whole + 1 ELSE v.whole
        fd      == Digits(f6 % 1000000, 6)
        kept    == {i \in 1..6 : fd[i] # 0}
        last    == IF kept = {} THEN 0 ELSE CHOOSE i \in kept : \A j \in kept : j <= i
    IN IF v.special # "" THEN [notation |-> "literal", neg |-> FALSE, whole |-> 0,
             digits |-> <<>>, exponent |-> 0]
       ELSE [notation |-> "fixed", neg |-> v.neg, whole |-> whole,
             digits |-> SubSeq(fd, 1, last), exponent |-> 0]

\* Lines 125-132 of _format_vector_as_table (the same at lines 74-81 of
\* _format_vector_as_text): float(), the two thresholds, f"{v:.6e}" or
\* f"{v:.6f}" with the trailing zeros and point stripped.  Rounding is half
\* up on the decimal digits.
format_value(v) ==
    LET Digits(n, w) == [i \in 1..w |-> (n \div 10 ^ (w - i)) % 10]
        NumDigits(n) == CHOOSE k \in 1..7 : 10 ^ (k - 1) <= n /\ n < 10 ^ k
        small   == v.whole = 0 /\ v.frac7 < 10000
        large   == v.whole > 100000 \/ (v.whole = 100000 /\ v.frac7 > 0)
        \* scientific: the seven leading digits as a number, and the exponent
        nd      == NumDigits(v.whole)
        nf      == NumDigits(v.frac7)
        lead    == IF v.whole > 0
                   THEN v.whole * 10 ^ (7 - nd) + v.frac7 \div 10 ^ nd
                   ELSE IF v.frac7 > 0 THEN v.frac7 * 10 ^ (7 - nf) ELSE 0
        next    == IF v.whole > 0 THEN (v.frac7 \div 10 ^ (nd - 1)) % 10 ELSE 0
        exp     == IF v.whole > 0 THEN nd - 1
                   ELSE IF v.frac7 > 0 THEN nf - 8 ELSE 0
        rounded == IF next >= 5 THEN lead + 1 ELSE lead
        mant    == IF rounded = 10000000 THEN 1000000 ELSE rounded
        exp2    == IF rounded = 10000000 THEN exp + 1 ELSE exp
        \* fixed: six decimals, the trailing zeros dropped
        f6      == (v.frac7 + 5) \div 10
        whole   == IF f6 = 1000000 THEN v.whole + 1 ELSE v.whole
        fd      == Digits(f6 % 1000000, 6)
        kept    == {i \in 1..6 : fd[i] # 0}
        last    == IF kept = {} THEN 0 ELSE CHOOSE i \in kept : \A j \in kept : j <= i
    IN IF v.special # "" THEN [notation |-> "literal", neg |-> FALSE, whole |-> 0,
             digits |-> <<>>, exponent |-> 0]
       ELSE IF small \/ large
       THEN [notation |-> "scientific", neg |-> v.neg, whole |-> mant \div 1000000,
             digits |-> Digits(mant % 1000000, 6), exponent |-> exp2]
       ELSE [notation |-> "fixed", neg |-> v.neg, whole |-> whole,
             digits |-> SubSeq(fd, 1, last), exponent |-> 0]

\* the answers of the metrics API that the tasks are run on
PromAnswers ==
    LET SampleValues ==
          {Value(FALSE, w, 0, "") : w \in {0, 1, 99999, 100000, 100001, 123456}}
          \cup {Value(FALSE, 0, f, "") : f \in {1, 9999, 10000, 5000000, 1234500}}
          \cup {Value(n, w, 5000000, "") : n \in BOOLEAN, w \in {12345, 100000}}
          \cup {Value(TRUE, 123456, 0, ""), Value(FALSE, 0, 0, "NaN")}
    IN
    {Answer(h, "", "", "", <<>>) :
        h \in {"unconfigured", "ConnectError", "ReadTimeout", "503"}}
    \cup {Answer(h, "error", "parse error", "", <<>>) : h \in {"200", "400", "422"}}
    \cup {Answer("200", "success", "", t, <<>>) : t \in {"vector", "matrix"}}
    \cup {Answer("200", "success", "", t, <<Value(FALSE, 1, 0, "")>>) :
            t \in {"matrix", "scalar"}}
    \cup {Answer("200", "success", "", "vector", <<v>>) : v \in SampleValues}
    \cup {Answer("200", "success", "", "vector",
                 <<Value(FALSE, 0, 1, ""), Value(FALSE, 123456, 0, "")>>)}

\* execute_query that renders every answer as text
execute_query_text_only(query, fmt, answer) ==
    PromResult("vector text", TRUE, query, "", "", <<>>)

\* PrometheusService.execute_query: raise_for_status raises on a status of
\* 400 and above before the body is read, and every exception is returned
\* as "Error executing query: " followed by its text
execute_query(query, fmt, answer) ==
    LET Err(source, t) == PromResult("Error executing query", FALSE, <<>>, source, t, <<>>)
        Msg(kind, titled) ==
            PromResult(kind, titled, IF titled THEN query ELSE <<>>, "", "", <<>>)
    IN
    IF answer.http = "unconfigured"
    THEN Msg("Error: Prometheus URL is not configured", FALSE)
    ELSE IF answer.http # "200" THEN Err("exception", answer.http)
    ELSE IF answer.status # "success" THEN Err("api", answer.error)
    ELSE IF answer.results = <<>> THEN Msg("The query returned no results.", FALSE)
    ELSE IF answer.resultType = "vector"
    THEN PromResult(IF fmt = "table" THEN "vector table"
                    ELSE IF fmt = "json" THEN "vector json" ELSE "vector text",
                    TRUE, query, "", "",
                    IF fmt = "json" THEN <<>>
                    ELSE [i \in 1..Len(answer.results) |-> format_value(answer.results[i])])
    ELSE IF answer.resultType = "matrix"
    THEN IF fmt = "table"
         THEN Msg("Matrix results are complex time series", FALSE)
         ELSE Msg("Prometheus Range Query Results", TRUE)
    ELSE Msg("Prometheus Results (other type)", TRUE)

(***************************************************************************)
(* Spec: one webhook request of at most MaxWords words, one blank between  *)
(* two words and possibly one before the first and after the last, and the *)
(* task the request creates.                                               *)
(***************************************************************************)
MaxWords == 2

RECURSIVE WordSeqs(_)
WordSeqs(n) ==
    IF n = 1 THEN {<<w>> : w \in Words}
    ELSE LET shorter == WordSeqs(n - 1) IN
         shorter \cup {m \o <<Blank, w>> : m \in shorter, w \in Words}

MessagesOf(n) ==
    {<<>>, <<Blank>>}
    \cup {lead \o m \o trail :
            lead \in {<<>>, <<Blank>>}, trail \in {<<>>, <<Blank>>}, m \in WordSeqs(n)}

Init ==
    /\ msg \in MessagesOf(MaxWords)
    /\ response_url \in BOOLEAN
    /\ reply = NoReply
    /\ tasks = <<>>
    /\ llm_reply = <<>>
    /\ calls = <<>>
    /\ posts = <<>>
    /\ prom_answer = Answer(None, None, None, None, <<>>)
    /\ prom_result = PromResult(None, FALSE, <<>>, None, None, <<>>)
    /\ hpc = "recv"
    /\ DiscIdle
    /\ K8sIdle
    /\ SvcIdle

\* the webhook endpoint runs process_webhook_request and returns its reply;
\* the tasks it created have not run yet
ProcessWebhookRequest ==
    /\ hpc = "recv"
    /\ LET d == process_webhook_request(msg) IN
       /\ reply' = d.reply
       /\ tasks' = d.tasks
    /\ hpc' = "dispatched"
    /\ UNCHANGED <<msg, response_url, llm_reply, calls, posts, prom_answer,
                   prom_result, discVars, k8sVars, svcVars>>

Runs(fn) == hpc = "dispatched" /\ tasks # <<>> /\ Head(tasks).fn = fn

\* the task ends: returned ("done") or left by an exception ("raised")
Finished(made, out) ==
    /\ calls' = made
    /\ posts' = out.posts
    /\ tasks' = Tail(tasks)
    /\ hpc' = IF out.escaped THEN "raised" ELSE "done"
    /\ UNCHANGED <<msg, response_url, reply, discVars, k8sVars, svcVars>>

\* the task process_prometheus_query
ProcessPrometheusQuery ==
    /\ Runs("process_prometheus_query")
    /\ \E answer \in PromAnswers, post_raises \in BOOLEAN, apology_raises \in BOOLEAN :
         /\ apology_raises => post_raises
         /\ prom_answer' = answer
         /\ prom_result' = execute_query(Head(tasks).arg, Head(tasks).format_type, answer)
         /\ Finished(<<Call("prometheus", Head(tasks).arg, Head(tasks).format_type)>>,
                     Outbound(response_url, "results", <<>>, FALSE, post_raises,
                              apology_raises))
    /\ UNCHANGED llm_reply

\* the task process_kubernetes_command
ProcessKubernetesCommand ==
    /\ Runs("process_kubernetes_command")
    /\ \E adapter_raises \in BOOLEAN, post_raises \in BOOLEAN, apology_raises \in BOOLEAN :
         /\ adapter_raises => ~post_raises
         /\ apology_raises => (adapter_raises \/ post_raises)
         /\ Finished(<<Call("kubernetes", Head(tasks).arg, Head(tasks).format_type)>>,
                     Outbound(response_url, "results", <<>>, adapter_raises, post_raises,
                              apology_raises))
    /\ UNCHANGED <<llm_reply, prom_answer, prom_result>>

\* the task process_natural_language_query
ProcessNaturalLanguageQuery ==
    /\ Runs("process_natural_language_query")
    /\ \E chatgpt_response \in LlmReplies, adapter_raises \in BOOLEAN,
          post_raises \in BOOLEAN, apology_raises \in BOOLEAN :
         LET r == RouteQuery(Head(tasks).arg, Head(tasks).format_type, chatgpt_response) IN
         /\ adapter_raises => r.k8s /\ ~post_raises
         /\ apology_raises => (adapter_raises \/ post_raises)
         /\ llm_reply' = chatgpt_response
         /\ Finished(r.calls,
                     Outbound(response_url, r.kind, r.body, adapter_raises, post_raises,
                              apology_raises))
    /\ UNCHANGED <<prom_answer, prom_result>>

\* the task process_with_chatgpt_and_route
ProcessWithChatgptAndRoute ==
    /\ Runs("process_with_chatgpt_and_route")
    /\ \E chatgpt_response \in LlmReplies, adapter_raises \in BOOLEAN,
          post_raises \in BOOLEAN, apology_raises \in BOOLEAN :
         LET r == RouteReply(Head(tasks).arg, chatgpt_response) IN
         /\ adapter_raises => r.k8s /\ ~post_raises
         /\ apology_raises => (adapter_raises \/ post_raises)
         /\ llm_reply' = chatgpt_response
         /\ Finished(r.calls,
                     Outbound(response_url, r.kind, r.body, adapter_raises, post_raises,
                              apology_raises))
    /\ UNCHANGED <<prom_answer, prom_result>>

Next ==
    \/ ProcessWebhookRequest
    \/ ProcessPrometheusQuery
    \/ ProcessKubernetesCommand
    \/ ProcessNaturalLanguageQuery
    \/ ProcessWithChatgptAndRoute

Spec == Init /\ [][Next]_vars

(***************************************************************************)
(* SpecHttp: one request to the /webhook endpoint of app/main.py, with a   *)
(* right or a wrong token and the secret set or not; the message is one of *)
(* fewer words than in Spec, or a workflow command.                        *)
(***************************************************************************)
InitHttp ==
    /\ msg \in MessagesOf(MaxWords - 1)
               \cup {<<"workflow">>, <<Blank, "WORKFLOW", Blank>>,
                     <<"workflow", Blank, "-n", Blank, "pods">>,
                     <<"workflow", Blank, "-p", Blank, "pods", Blank, "-n">>}
    /\ response_url \in BOOLEAN
    /\ webhook_token \in {"", "secret"}
    /\ token \in {"secret", "wrong"}
    /\ http_status = None
    /\ flow_runs = <<>>
    /\ slots = <<>> /\ started = 0 /\ entries = <<>> /\ http_posts = 0
    /\ flow_target = [namespace |-> None, pod |-> None] /\ flow_run = 0
    /\ flow_listing = [kind |-> None, phases |-> <<>>]
    /\ flow_abnormal = [result |-> None, info |-> <<>>]
    /\ flow_posts = <<>> /\ flow_pc = "idle"
    /\ reply = NoReply
    /\ tasks = <<>>
    /\ llm_reply = <<>>
    /\ calls = <<>>
    /\ posts = <<>>
    /\ prom_answer = Answer(None, None, None, None, <<>>)
    /\ prom_result = PromResult(None, FALSE, <<>>, None, None, <<>>)
    /\ hpc = "http"
    /\ api_key = FALSE /\ request_count = 0 /\ attempt = 0 /\ retry_delay = 1
    /\ sleeps = <<>> /\ outcomes = <<>> /\ gpt_result = None /\ gpt_pc = "idle"
    /\ elapsed = 0 /\ age = [count |-> 0, unit |-> None] /\ fmt_pc = "idle"
    /\ resource_kind = None /\ rendering = None /\ item_count = 0
    /\ formatted = None
    /\ DiscIdle
    /\ K8sIdle

\* mattermost_webhook of app/main.py, lines 96-151: HTTPException(401) when
\* a secret is set and the token differs; a text that starts with
\* "workflow" creates a flow run with the parsed namespace and pod (any
\* failure is answered with an ephemeral message); every other text goes to
\* process_webhook_request
MattermostWebhook ==
    /\ hpc = "http"
    /\ LET parts == SelectSeq(msg, LAMBDA a : a # Blank)
           RECURSIVE Parse(_, _, _)
           Parse(i, namespace, pod) ==
               IF i > Len(parts) THEN [namespace |-> namespace, pod |-> pod]
               ELSE IF parts[i] \in {"-n", "--namespace"} /\ i + 1 <= Len(parts)
               THEN Parse(i + 2, parts[i + 1], pod)
               ELSE IF parts[i] \in {"-p", "--pod"} /\ i + 1 <= Len(parts)
               THEN Parse(i + 2, namespace, parts[i + 1])
               ELSE Parse(i + 1, namespace, pod)
           d == process_webhook_request(msg)
       IN
       IF webhook_token # "" /\ token # webhook_token
       THEN /\ http_status' = "401"
            /\ hpc' = "rejected"
            /\ UNCHANGED <<reply, tasks, flow_runs>>
       ELSE IF parts # <<>> /\ LowerAtom(parts[1]) = "workflow"
       THEN /\ http_status' = "200"
            /\ hpc' = "workflow"
            /\ \E triggered \in BOOLEAN :
                 IF triggered
                 THEN /\ flow_runs' = <<Parse(2, None, None)>>
                      /\ reply' = MattermostResponse(
                             "Kubernetes Troubleshooting Workflow started", "in_channel")
                 ELSE /\ flow_runs' = <<>>
                      /\ reply' = MattermostResponse(
                             "Failed to start workflow", "ephemeral")
            /\ UNCHANGED tasks
       ELSE /\ http_status' = "200"
            /\ hpc' = "dispatched"
            /\ reply' = d.reply
            /\ tasks' = d.tasks
            /\ UNCHANGED flow_runs
    /\ UNCHANGED <<msg, response_url, llm_reply, calls, posts, prom_answer,
                   prom_result, token, webhook_token, discVars, k8sVars,
                   gptVars, fmtVars, callVars, flowVars>>

SpecHttp ==
    InitHttp /\ [][\/ MattermostWebhook
                   \/ ProcessPrometheusQuery
                   \/ ProcessKubernetesCommand
                   \/ ProcessNaturalLanguageQuery
                   \/ ProcessWithChatgptAndRoute]_vars

\* C22: a request whose token differs from the configured value of
\* MATTERMOST_WEBHOOK_TOKEN is answered 401 and nothing is dispatched: no
\* reply, no flow run, no task, no backend call, no post.
C22_MismatchRejected ==
    (token # webhook_token /\ hpc # "http") =>
        /\ http_status = "401" /\ hpc = "rejected"
        /\ reply = NoReply /\ flow_runs = <<>>
        /\ tasks = <<>> /\ calls = <<>> /\ posts = <<>>

\* C22 with a secret set: the mismatching request is rejected before any
\* dispatch
C22_RejectedWhenSecretSet ==
    (webhook_token # "" /\ token # webhook_token /\ hpc # "http") =>
        /\ http_status = "401" /\ hpc = "rejected"
        /\ reply = NoReply /\ flow_runs = <<>>
        /\ tasks = <<>> /\ calls = <<>> /\ posts = <<>>

(***************************************************************************)
(* Claims about the webhook dispatch (checked under Spec).                 *)
(***************************************************************************)
Directives ==
    {"metric", "kubectl", "metric-text", "kubectl-yaml", "query", "query-text"}

\* the task that serves a directive
BackendTask(prefix) ==
    CASE prefix \in {"metric", "metric-text"} -> "process_prometheus_query"
      [] prefix \in {"kubectl", "kubectl-yaml"} -> "process_kubernetes_command"
      [] OTHER -> "process_natural_language_query"

IsDirective(t) == \E p \in Directives : StartsWithDirective(t, p)
IsKeyword(t) == ~IsDirective(t) /\ process_command(t) # None
IsFallback(t) == ~IsDirective(t) /\ process_command(t) = None

\* C5: a directive wins over the keywords, the keywords over the fallback;
\* a directive message creates exactly one task, for its backend, and is
\* answered at once with an ephemeral acknowledgement, nothing having been
\* called or posted yet.
C5_DispatchPriority ==
    hpc = "dispatched" =>
        /\ calls = <<>> /\ posts = <<>>
        /\ \A p \in Directives :
              StartsWithDirective(msg, p) =>
                  /\ reply.response_type = "ephemeral"
                  /\ Len(tasks) = 1
                  /\ tasks[1].fn = BackendTask(p)
                  /\ tasks[1].arg = AfterFirstBlank(msg)
        /\ IsKeyword(msg) => tasks = <<>> /\ reply.text = process_command(msg)
        /\ IsFallback(msg) =>
              tasks = <<Task("process_with_chatgpt_and_route", msg, "table")>>

\* "KUBECTL pods": the kubectl directive, one cluster task, ephemeral reply
C5_Witness ==
    /\ hpc = "dispatched"
    /\ msg = <<"KUBECTL", Blank, "pods">>
    /\ reply.response_type = "ephemeral"
    /\ tasks = <<Task("process_kubernetes_command", <<"pods">>, "table")>>

Detected == detect_script_type(llm_reply)

\* the model's reply went out unchanged and nothing else was called
ReplyVerbatim ==
    /\ Len(calls) = 1
    /\ posts # <<>>
    /\ posts[1].kind = "reply"
    /\ posts[1].body = llm_reply

\* what C6 and its amendment share: the acknowledgement comes first, and the
\* task hands the full text to the language model
FallbackAcknowledged ==
    /\ hpc = "dispatched" =>
          /\ reply = MattermostResponse("Processing your request", "ephemeral")
          /\ tasks = <<Task("process_with_chatgpt_and_route", msg, "table")>>
          /\ calls = <<>> /\ posts = <<>>
    /\ hpc = "done" =>
          /\ calls # <<>>
          /\ calls[1] = Call("chatgpt", msg, "")

C12_CatchAllBoundary ==
    hpc \in {"done", "raised"} =>
        /\ hpc = "done"
        /\ Len(posts) \in {1, 2}
        /\ \A i \in 1..Len(posts) :
              /\ posts[i].kind = "error" => i = Len(posts)
              /\ (posts[i].kind # "error" /\ posts[i].raised) =>
                    (i + 1 = Len(posts) /\ posts[i + 1].kind = "error")
              /\ (posts[i].kind # "error" /\ ~posts[i].raised) => i = Len(posts)

\* the result post raised and the apology raised as well; the task returned
C12_Witness ==
    /\ hpc = "done"
    /\ Len(posts) = 2
    /\ posts[1].kind # "error" /\ posts[1].raised
    /\ posts[2].kind = "error" /\ posts[2].raised

\* the metrics API answered the task's query with a vector that is not empty
VectorAnswered ==
    /\ prom_answer.http = "200" /\ prom_answer.status = "success"
    /\ prom_answer.resultType = "vector" /\ prom_answer.results # <<>>

\* the task of a 'metric <q>' message ran: one call of the metrics adapter,
\* with the trimmed text after the prefix, in table format
MetricTaskRan ==
    /\ hpc = "done"
    /\ calls = <<Call("prometheus", AfterFirstBlank(msg), "table")>>
    /\ posts # <<>> /\ posts[1].kind = "results"

\* a task that asked the language model has ended; when it called a backend
\* adapter it asked for the table format
AskedModelForTable ==
    /\ hpc \in {"done", "raised"}
    /\ calls # <<>> /\ calls[1].adapter = "chatgpt"
    /\ Len(calls) >= 2 => calls[2].format_type = "table"

\* the backend calls that the other of the two paths makes on the reply:
\* process_natural_language_query is the path that sends a system prompt
OtherPathCalls ==
    IF calls[1].format_type = "system_prompt"
    THEN Tail(RouteReply(calls[1].arg, llm_reply).calls)
    ELSE Tail(RouteQuery(calls[1].arg, "table", llm_reply).calls)

\* C26: on one and the same reply of the language model the 'query' path in
\* table format and the free-text fallback path call the same backend
\* adapter with the same script, the fragment that detect_script_type
\* returns for the reply.
C26_SameBackendCall ==
    AskedModelForTable =>
        /\ Tail(calls) = OtherPathCalls
        /\ Len(calls) >= 2 =>
              calls[2].arg = detect_script_type(llm_reply).extracted_script

\* C26 for replies whose PromQL fragment, if any, is one non-empty line
C26_OneLineFragment ==
    (/\ AskedModelForTable
     /\ detect_script_type(llm_reply).script_type = "promql" =>
           Len(detect_script_type(llm_reply).extracted_script) = 1) =>
        /\ Tail(calls) = OtherPathCalls
        /\ Len(calls) >= 2 =>
              calls[2].arg = detect_script_type(llm_reply).extracted_script

\* the fallback path ran the first line only of a two-line PromQL fragment
C26_FirstLineOnly ==
    /\ AskedModelForTable /\ calls[1].format_type = ""
    /\ llm_reply = <<"FENCE promql", "up", "kubectl get pods", "FENCE">>
    /\ Tail(calls) = <<Call("prometheus", <<"up">>, "table")>>

\* C27: a task makes at most two post attempts, one for the result and at
\* most one apology; the apology comes only after the adapter or the result
\* post raised and is the task's last attempt; every attempt of the task
\* goes through the callback URL when the request supplied one and through
\* the channel API otherwise.
C27_AtMostTwoPostsOneRoute ==
    hpc \in {"done", "raised"} =>
        /\ Len(posts) <= 2
        /\ Cardinality({i \in 1..Len(posts) : posts[i].kind # "error"}) <= 1
        /\ Cardinality({i \in 1..Len(posts) : posts[i].kind = "error"}) <= 1
        /\ \A i \in 1..Len(posts) :
              /\ posts[i].via = IF response_url THEN "response_url" ELSE "send_response"
              /\ posts[i].kind = "error" =>
                    /\ i = Len(posts)
                    /\ i = 2 => (posts[1].kind # "error" /\ posts[1].raised)
                    /\ i = 1 => \E j \in 1..Len(calls) : calls[j].adapter = "kubernetes"

\* a result and an apology were both attempted through the callback URL
C27_Witness ==
    /\ hpc = "done" /\ response_url
    /\ Len(posts) = 2
    /\ posts[1].kind # "error" /\ posts[1].raised /\ posts[1].via = "response_url"
    /\ posts[2].kind = "error" /\ posts[2].via = "response_url"

C17_ErrorFormsDistinct ==
    /\ prom_answer.status = "error" =>
          prom_result.detail = [source |-> "api", text |-> prom_answer.error]
    /\ prom_answer.http \in {"ConnectError", "ReadTimeout"} =>
          prom_result.kind # "Error executing query"

\* C17, the one path that keeps the API's text: an error body that comes
\* with HTTP status 200
C17_ErrorBodyWithStatus200 ==
    (prom_answer.status = "error" /\ prom_answer.http = "200") =>
        /\ prom_result.kind = "Error executing query"
        /\ prom_result.detail = [source |-> "api", text |-> prom_answer.error]

\* the vector with the values 0.0000001 and 123456
ExamplePair == <<Value(FALSE, 0, 1, ""), Value(FALSE, 123456, 0, "")>>

\* C19 as stated: of the values 0.0000001 and 123456 the first is rendered in
\* scientific notation and the second in fixed point.
C19_ExampleSecondFixed ==
    (MetricTaskRan /\ VectorAnswered /\ prom_answer.results = ExamplePair) =>
        /\ prom_result.values[1].notation = "scientific"
        /\ prom_result.values[2].notation = "fixed"

\* C19: every number of an answered vector is rendered in scientific
\* notation exactly when its magnitude is below 0.001 or above 100000, and
\* otherwise in fixed point without trailing zeros; 0.0000001 and 123456 are
\* rendered 1.000000e-07 and 1.234560e+05.
C19_ScientificOutsideThresholds ==
    (MetricTaskRan /\ VectorAnswered) =>
        /\ Len(prom_result.values) = Len(prom_answer.results)
        /\ \A i \in 1..Len(prom_answer.results) :
              LET v == prom_answer.results[i]
                  r == prom_result.values[i]
                  below == v.whole = 0 /\ v.frac7 < 10000
                  above == v.whole > 100000 \/ (v.whole = 100000 /\ v.frac7 > 0)
              IN v.special = "" =>
                   /\ r.notation = (IF below \/ above THEN "scientific" ELSE "fixed")
                   /\ r.neg = v.neg
                   /\ r.notation = "scientific" => Len(r.digits) = 6 /\ r.whole \in 0..9
                   /\ r.notation = "fixed" =>
                         r.digits = <<>> \/ r.digits[Len(r.digits)] # 0
        /\ prom_answer.results = ExamplePair =>
              prom_result.values =
                  << [notation |-> "scientific", neg |-> FALSE, whole |-> 1,
                      digits |-> <<0, 0, 0, 0, 0, 0>>, exponent |-> -7],
                     [notation |-> "scientific", neg |-> FALSE, whole |-> 1,
                      digits |-> <<2, 3, 4, 5, 6, 0>>, exponent |-> 5] >>

\* the table of 0.0000001 and 123456 was posted
C19_Witness ==
    /\ MetricTaskRan /\ VectorAnswered
    /\ prom_answer.results = ExamplePair
    /\ prom_result.kind = "vector table"
    /\ prom_result.values[2].notation = "scientific"
    /\ prom_result.values[2].exponent = 5

\* C15: a message that begins, after trimming, with help, ping or status
\* and is no directive is answered in the synchronous reply with the canned
\* text; no task is created for it, and nothing is called or posted.
C15_KeywordAnsweredSynchronously ==
    LET clean_command == StripAtoms(msg) IN
    (/\ ~IsDirective(msg)
     /\ clean_command # <<>>
     /\ clean_command[1] \in {"help", "ping", "status"}
     /\ hpc # "recv") =>
        /\ hpc = "dispatched"
        /\ reply.text \in {"Available commands", "Pong!", "All systems operational"}
        /\ reply.response_type = "in_channel"
        /\ tasks = <<>> /\ calls = <<>> /\ posts = <<>>

\* ' ping pods' answered with Pong! and nothing scheduled
C15_Witness ==
    /\ msg = <<Blank, "ping", Blank, "pods">>
    /\ hpc = "dispatched"
    /\ reply = MattermostResponse("Pong!", "in_channel")
    /\ tasks = <<>> /\ calls = <<>> /\ posts = <<>>

(***************************************************************************)
(* LANGUAGE-MODEL SERVICE.  SpecGpt: one call of                           *)
(* ChatGPTService.get_response, the process-wide request_count being what  *)
(* earlier calls left.  The coroutine is resumed by the event loop after   *)
(* each await (the post has a timeout of 30 s), hence the weak fairness.   *)
(***************************************************************************)
max_retries == 3

\* the loop retrying after every HTTP error status
AfterAttemptRetryAnyStatus(outcome, n) ==
    CASE outcome = "200" -> [retry |-> FALSE, text |-> "content"]
      [] outcome \in {"429", "500"} ->
           IF n < max_retries - 1
           THEN [retry |-> TRUE, text |-> None]
           ELSE [retry |-> FALSE, text |-> "I'm currently experiencing high demand"]
      [] outcome = "RequestError" ->
           [retry |-> FALSE, text |-> "Sorry, I couldn't connect to the AI service"]
      [] OTHER ->
           [retry |-> FALSE, text |-> "Sorry, an unexpected error occurred"]

\* What one pass of the loop of lines 48-97 does after the post ended with
\* outcome: "200" a completion, "429" / "500" an HTTPStatusError of that
\* status, "RequestError" no connection, "Exception" anything else.
AfterAttempt(outcome, n) ==
    CASE outcome = "200" -> [retry |-> FALSE, text |-> "content"]
      [] outcome = "429" ->
           IF n < max_retries - 1
           THEN [retry |-> TRUE, text |-> None]
           ELSE [retry |-> FALSE, text |-> "I'm currently experiencing high demand"]
      [] outcome = "500" ->
           [retry |-> FALSE, text |-> "Sorry, there was an issue with the AI service"]
      [] outcome = "RequestError" ->
           [retry |-> FALSE, text |-> "Sorry, I couldn't connect to the AI service"]
      [] OTHER ->
           [retry |-> FALSE, text |-> "Sorry, an unexpected error occurred"]

InitGpt ==
    /\ api_key \in BOOLEAN
    /\ request_count \in 0..45
    /\ attempt = 0 /\ retry_delay = 1
    /\ sleeps = <<>> /\ outcomes = <<>>
    /\ gpt_result = None
    /\ gpt_pc = "start"
    /\ elapsed = 0 /\ age = [count |-> 0, unit |-> None] /\ fmt_pc = "idle"
    /\ resource_kind = None /\ rendering = None /\ item_count = 0
    /\ formatted = None
    /\ token = None /\ webhook_token = None /\ http_status = None
    /\ flow_runs = <<>>
    /\ slots = <<>> /\ started = 0 /\ entries = <<>> /\ http_posts = 0
    /\ flow_target = [namespace |-> None, pod |-> None] /\ flow_run = 0
    /\ flow_listing = [kind |-> None, phases |-> <<>>]
    /\ flow_abnormal = [result |-> None, info |-> <<>>]
    /\ flow_posts = <<>> /\ flow_pc = "idle"
    /\ DiscIdle
    /\ K8sIdle
    /\ HookIdle

\* lines 19-46: the key test, the request counter, the first delay
GetResponse ==
    /\ gpt_pc = "start"
    /\ IF ~api_key
       THEN /\ gpt_result' = "Error: OpenAI API key is not configured"
            /\ gpt_pc' = "done"
            /\ UNCHANGED request_count
       ELSE IF request_count + 1 > 45
       THEN /\ request_count' = IF request_count + 1 - 5 > 0 THEN request_count + 1 - 5 ELSE 0
            /\ gpt_result' = "I'm getting too many requests right now"
            /\ gpt_pc' = "done"
       ELSE /\ request_count' = request_count + 1
            /\ gpt_pc' = "attempt"
            /\ UNCHANGED gpt_result
    /\ attempt' = 0 /\ retry_delay' = 1
    /\ UNCHANGED <<api_key, sleeps, outcomes, discVars, k8sVars, hookVars, fmtVars, httpVars, callVars, flowVars>>

\* lines 48-97: one post to the completions API and what follows it
HttpPost ==
    /\ gpt_pc = "attempt"
    /\ attempt < max_retries
    /\ \E outcome \in {"200", "429", "500", "RequestError", "Exception"} :
         LET a == AfterAttempt(outcome, attempt) IN
         /\ outcomes' = Append(outcomes, outcome)
         /\ gpt_pc' = IF a.retry THEN "sleep" ELSE "done"
         /\ gpt_result' = a.text
    /\ UNCHANGED <<api_key, request_count, attempt, retry_delay, sleeps,
                   discVars, k8sVars, hookVars, fmtVars, httpVars, callVars, flowVars>>

\* lines 81-83: asyncio.sleep(retry_delay), the delay doubled, next pass
Sleep ==
    /\ gpt_pc = "sleep"
    /\ sleeps' = Append(sleeps, retry_delay)
    /\ retry_delay' = retry_delay * 2
    /\ attempt' = attempt + 1
    /\ gpt_pc' = "attempt"
    /\ UNCHANGED <<api_key, request_count, outcomes, gpt_result,
                   discVars, k8sVars, hookVars, fmtVars, httpVars, callVars, flowVars>>

NextGpt == GetResponse \/ HttpPost \/ Sleep

SpecGpt == InitGpt /\ [][NextGpt]_vars /\ WF_vars(NextGpt)

(***************************************************************************)
(* Claims about the language-model service (checked under SpecGpt).        *)
(***************************************************************************)
\* C13: the call ends, with a text; every post but the last ended in a 429,
\* there are at most max_retries posts, the delays slept are 1, 2, ...
\* doubling, and the 'high demand' message is returned exactly after
\* max_retries posts that all ended in a 429.
C13_RetryOn429Only ==
    /\ <>(gpt_pc = "done")
    /\ [](gpt_pc = "done" =>
            /\ gpt_result # None
            /\ Len(outcomes) <= max_retries
            /\ \A i \in 1..(Len(outcomes) - 1) : outcomes[i] = "429"
            /\ Len(sleeps) = (IF outcomes = <<>> THEN 0 ELSE Len(outcomes) - 1)
            /\ \A i \in 1..Len(sleeps) : sleeps[i] = 2 ^ (i - 1)
            /\ (gpt_result = "I'm currently experiencing high demand") <=>
                  (Len(outcomes) = max_retries /\ outcomes[max_retries] = "429"))

\* three posts answered 429, slept 1 s and 2 s, 'high demand' returned
C13_Witness ==
    /\ gpt_pc = "done"
    /\ outcomes = <<"429", "429", "429">>
    /\ sleeps = <<1, 2>>
    /\ gpt_result = "I'm currently experiencing high demand"

(***************************************************************************)
(* SpecCalls: up to MaxTasks tasks of the event loop call get_response, at  *)
(* most MaxCalls calls in all.  A call is the steps                        *)
(*   key     line 19, the API key test                                     *)
(*   read    line 24, request_count is read                                *)
(*   write   line 24, the value read plus one is stored                    *)
(*   test    lines 26-29, the threshold test and the decay                 *)
(*   post    line 51, await client.post                                    *)
(*   finish  the response is received and the call returns                 *)
(* The event loop runs a task from the step it stands at to its next       *)
(* suspension; the posts after the first and the sleeps of lines 48-97 do  *)
(* not touch request_count and are left to SpecGpt.                        *)
(***************************************************************************)
MaxTasks == 2
MaxCalls == 52

\* a coroutine that could be suspended after each of its steps
SuspendsAfterEveryStep(step) == TRUE

\* the steps at which get_response awaits: client.post (line 51) is the
\* first await of the coroutine
Suspends(step) == step = "post"

\* a limiter that rejects above 45 without the decay
limiter_without_decay(count) == [rejected |-> count > 45, count |-> count]

\* lines 26-29: above 45 the call is rejected and the counter is lowered
\* by 5, not below 0
limiter(count) ==
    IF count > 45
    THEN [rejected |-> TRUE, count |-> IF count - 5 > 0 THEN count - 5 ELSE 0]
    ELSE [rejected |-> FALSE, count |-> count]

InitCalls ==
    /\ api_key \in BOOLEAN
    /\ request_count = 0
    /\ slots = [t \in 1..MaxTasks |-> [pc |-> "idle", tmp |-> 0]]
    /\ started = 0
    /\ entries = <<>>
    /\ http_posts = 0
    /\ flow_target = [namespace |-> None, pod |-> None] /\ flow_run = 0
    /\ flow_listing = [kind |-> None, phases |-> <<>>]
    /\ flow_abnormal = [result |-> None, info |-> <<>>]
    /\ flow_posts = <<>> /\ flow_pc = "idle"
    /\ attempt = 0 /\ retry_delay = 1
    /\ sleeps = <<>> /\ outcomes = <<>> /\ gpt_result = None /\ gpt_pc = "idle"
    /\ elapsed = 0 /\ age = [count |-> 0, unit |-> None] /\ fmt_pc = "idle"
    /\ resource_kind = None /\ rendering = None /\ item_count = 0
    /\ formatted = None
    /\ token = None /\ webhook_token = None /\ http_status = None
    /\ flow_runs = <<>>
    /\ DiscIdle
    /\ K8sIdle
    /\ HookIdle

\* the event loop runs task t until it suspends or returns; a task that
\* stands at no call begins the next one
RunTask ==
    \E t \in 1..MaxTasks :
        LET Exec(st) ==
                CASE st.pc = "key" ->
                       [st EXCEPT !.pc = IF api_key THEN "read" ELSE "done"]
                  [] st.pc = "read" ->
                       [st EXCEPT !.pc = "write", !.tmp = st.count]
                  [] st.pc = "write" ->
                       [st EXCEPT !.pc = "test", !.count = st.tmp + 1]
                  [] st.pc = "test" ->
                       LET l == limiter(st.count) IN
                       [st EXCEPT !.pc = IF l.rejected THEN "done" ELSE "post",
                                  !.count = l.count,
                                  !.log = Append(st.log, [read |-> st.tmp,
                                                          rejected |-> l.rejected])]
                  [] st.pc = "post" ->
                       [st EXCEPT !.pc = "finish", !.posts = st.posts + 1]
                  [] st.pc = "finish" -> [st EXCEPT !.pc = "done"]
            RECURSIVE Run(_)
            Run(st) ==
                LET after == Exec(st) IN
                IF after.pc = "done" \/ Suspends(st.pc) THEN after ELSE Run(after)
            fresh == slots[t].pc \in {"idle", "done"}
            out == Run([pc    |-> IF fresh THEN "key" ELSE slots[t].pc,
                        tmp   |-> slots[t].tmp,
                        count |-> request_count,
                        log   |-> entries,
                        posts |-> http_posts])
        IN
        /\ fresh => started < MaxCalls
        /\ started' = IF fresh THEN started + 1 ELSE started
        /\ slots' = [slots EXCEPT ![t] =
                        [pc  |-> out.pc,
                         tmp |-> IF out.pc \in {"write", "test"} THEN out.tmp ELSE 0]]
        /\ request_count' = out.count
        /\ entries' = out.log
        /\ http_posts' = out.posts
        /\ UNCHANGED <<api_key, attempt, retry_delay, sleeps, outcomes, gpt_result,
                       gpt_pc, discVars, k8sVars, hookVars, fmtVars, httpVars,
                       flowVars>>

SpecCalls == InitCalls /\ [][RunTask]_vars

(***************************************************************************)
(* Claims about the request counter (checked under SpecCalls).             *)
(***************************************************************************)
\* request_count after k calls of get_response made one after the other
RECURSIVE SequentialCount(_)
SequentialCount(k) ==
    IF k = 0 THEN 0
    ELSE LET c == SequentialCount(k - 1) + 1 IN IF c > 45 THEN c - 5 ELSE c

Quiescent == \A t \in 1..MaxTasks : slots[t].pc \in {"idle", "done"}

\* C23: however the tasks interleave, every call that began has counted:
\* the counter is the one of as many sequential calls, each call read the
\* counter its predecessor left, and the calls rejected are those a
\* sequential execution in the order of the entries rejects.
C23_NoLostIncrement ==
    api_key =>
        /\ Len(entries) = started
        /\ request_count = SequentialCount(started)
        /\ \A k \in 1..Len(entries) :
              /\ entries[k].read = SequentialCount(k - 1)
              /\ entries[k].rejected = (SequentialCount(k - 1) + 1 > 45)

\* two calls are awaiting their responses at once
C23_Witness ==
    /\ api_key
    /\ slots[1].pc = "finish" /\ slots[2].pc = "finish"
    /\ request_count = 2 /\ started = 2

\* C24: with a key, the counter is within 0..45 whenever no call is in
\* progress; a call is rejected exactly when it read 45, it then makes no
\* HTTP request and leaves the counter at 41; the rejected calls are the
\* 46th and every fifth after it; without a key the counter stays as it was.
C24_EveryFifthRejected ==
    /\ api_key =>
          /\ Quiescent => request_count \in 0..45
          /\ http_posts = Cardinality({k \in 1..Len(entries) : ~entries[k].rejected})
          /\ \A k \in 1..Len(entries) :
                /\ entries[k].rejected <=> entries[k].read = 45
                /\ entries[k].rejected <=> (k >= 46 /\ (k - 46) % 5 = 0)
                /\ entries[k].rejected =>
                      IF k < Len(entries) THEN entries[k + 1].read = 41
                      ELSE request_count = 41
    /\ ~api_key => request_count = 0 /\ entries = <<>> /\ http_posts = 0

\* the 51st call was rejected, five calls after the 46th
C24_Witness ==
    /\ api_key /\ Quiescent
    /\ Len(entries) = 51
    /\ entries[46].rejected /\ entries[51].rejected
    /\ \A k \in 47..50 : ~entries[k].rejected
    /\ request_count = 41 /\ http_posts = 49

(***************************************************************************)
(* TABLE FORMATTER.  SpecFmt: one call of K8sFormatter, either of          *)
(* _calculate_age on a resource created a whole number of seconds ago (at  *)
(* most MaxDays days and a few hours, minutes and seconds around the unit  *)
(* boundaries), or of a format_* method on a collection of at most         *)
(* MaxItems such resources.                                                *)
(***************************************************************************)
MaxDays == 2
MaxItems == 2

\* K8sFormatter._calculate_age (the same text in the bot's
\* KubernetesService): age.days is the whole days of the difference and
\* age.seconds the seconds of the remaining part of a day
calculate_age(total) ==
    LET days    == total \div 86400
        seconds == total % 86400
    IN IF days > 0 THEN [count |-> days, unit |-> "d"]
       ELSE IF seconds > 3600 THEN [count |-> seconds \div 3600, unit |-> "h"]
       ELSE IF seconds > 60 THEN [count |-> seconds \div 60, unit |-> "m"]
       ELSE [count |-> seconds, unit |-> "s"]

\* the format_* methods without the test of lines 25, 55, 73, ...: the
\* title and the header or the fence are written for an empty collection too
format_collection_unguarded(k, r, n, total) ==
    [sentence |-> "",
     title    |-> <<k, r>>,
     columns  |-> IF r = "table" THEN 4 ELSE 0,
     ages     |-> <<>>,
     summary  |-> FALSE,
     block    |-> r = "yaml",
     documents |-> IF r = "yaml" THEN n ELSE 0]

\* K8sFormatter.format_<k>_as_<r> on n items created total seconds ago: the
\* sentence for an empty collection, else the title, the header of the
\* table with a row per item (its age where the table has an Age column)
\* or the fenced block with a document per item
format_collection(k, r, n, total) ==
    IF n = 0
    THEN [sentence |-> CASE k = "pods" /\ r = "table"
                              -> "No pods found matching the criteria."
                         [] k = "pods" /\ r = "yaml" -> "No pods found."
                         [] k = "services" -> "No services found."
                         [] k = "deployments" -> "No deployments found."
                         [] k = "namespaces" -> "No namespaces found."
                         [] k = "nodes" -> "No nodes found.",
          title |-> <<>>, columns |-> 0, ages |-> <<>>, summary |-> FALSE,
          block |-> FALSE, documents |-> 0]
    ELSE IF r = "table"
    THEN [sentence |-> "",
          title    |-> <<k, r>>,
          columns  |-> CASE k = "services" -> 5
                         [] k = "namespaces" -> 3
                         [] OTHER -> 4,
          ages     |-> IF k = "services" THEN <<>>
                       ELSE [i \in 1..n |-> calculate_age(total)],
          summary  |-> k = "pods",
          block    |-> FALSE,
          documents |-> 0]
    ELSE [sentence |-> "", title |-> <<k, r>>, columns |-> 0, ages |-> <<>>,
          summary |-> FALSE, block |-> TRUE, documents |-> n]

InitFmt ==
    /\ elapsed \in {d * 86400 + h * 3600 + m * 60 + sec :
                        d \in 0..MaxDays, h \in {0, 1, 2, 23},
                        m \in {0, 1, 2, 59}, sec \in {0, 1, 59}}
    /\ age = [count |-> 0, unit |-> None]
    /\ resource_kind \in {"pods", "services", "deployments", "namespaces", "nodes"}
    /\ rendering \in {"table", "yaml"}
    /\ item_count \in 0..MaxItems
    /\ formatted = None
    /\ fmt_pc = "start"
    /\ token = None /\ webhook_token = None /\ http_status = None
    /\ flow_runs = <<>>
    /\ slots = <<>> /\ started = 0 /\ entries = <<>> /\ http_posts = 0
    /\ flow_target = [namespace |-> None, pod |-> None] /\ flow_run = 0
    /\ flow_listing = [kind |-> None, phases |-> <<>>]
    /\ flow_abnormal = [result |-> None, info |-> <<>>]
    /\ flow_posts = <<>> /\ flow_pc = "idle"
    /\ api_key = FALSE /\ request_count = 0 /\ attempt = 0 /\ retry_delay = 1
    /\ sleeps = <<>> /\ outcomes = <<>> /\ gpt_result = None /\ gpt_pc = "idle"
    /\ DiscIdle
    /\ K8sIdle
    /\ HookIdle

\* one row of a table: age = self._calculate_age(creation_time)
CalculateAge ==
    /\ fmt_pc = "start"
    /\ age' = calculate_age(elapsed)
    /\ fmt_pc' = "done"
    /\ UNCHANGED <<elapsed, resource_kind, rendering, item_count, formatted,
                   discVars, k8sVars, hookVars, gptVars, httpVars, callVars, flowVars>>

\* formatter.format_<kind>_as_<rendering>(<collection>)
FormatCollection ==
    /\ fmt_pc = "start"
    /\ formatted' = format_collection(resource_kind, rendering, item_count, elapsed)
    /\ fmt_pc' = "formatted"
    /\ UNCHANGED <<elapsed, age, resource_kind, rendering, item_count,
                   discVars, k8sVars, hookVars, gptVars, httpVars, callVars, flowVars>>

SpecFmt == InitFmt /\ [][CalculateAge \/ FormatCollection]_vars

\* C21: an empty collection of any kind, in either rendering, is answered
\* with the sentence 'No <kind> found...' alone: no title, no table header,
\* no row and no fenced block.
C21_EmptyCollectionSentence ==
    (fmt_pc = "formatted" /\ item_count = 0) =>
        /\ formatted.sentence \in
              CASE resource_kind = "pods" ->
                     {"No pods found.", "No pods found matching the criteria."}
                [] resource_kind = "services" -> {"No services found."}
                [] resource_kind = "deployments" -> {"No deployments found."}
                [] resource_kind = "namespaces" -> {"No namespaces found."}
                [] resource_kind = "nodes" -> {"No nodes found."}
        /\ formatted.title = <<>> /\ formatted.columns = 0
        /\ formatted.ages = <<>> /\ ~formatted.summary
        /\ ~formatted.block /\ formatted.documents = 0

\* an empty list of pods was formatted as a table
C21_Witness ==
    /\ fmt_pc = "formatted" /\ item_count = 0
    /\ resource_kind = "pods" /\ rendering = "table"
    /\ formatted.sentence = "No pods found matching the criteria."

\* C20: the age is the count of the largest unit that has fully elapsed:
\* days from 86400 s, else hours from 3600 s, else minutes from 60 s, else
\* seconds.
C20_LargestElapsedUnit ==
    fmt_pc = "done" =>
        age = IF elapsed >= 86400 THEN [count |-> elapsed \div 86400, unit |-> "d"]
              ELSE IF elapsed >= 3600 THEN [count |-> elapsed \div 3600, unit |-> "h"]
              ELSE IF elapsed >= 60 THEN [count |-> elapsed \div 60, unit |-> "m"]
              ELSE [count |-> elapsed, unit |-> "s"]

\* C20 away from the two boundaries: every age but 60 s and 3600 s is
\* rendered in the largest unit that has fully elapsed
C20_ExceptAtBoundaries ==
    (fmt_pc = "done" /\ elapsed \notin {60, 3600}) =>
        age = IF elapsed >= 86400 THEN [count |-> elapsed \div 86400, unit |-> "d"]
              ELSE IF elapsed > 3600 THEN [count |-> elapsed \div 3600, unit |-> "h"]
              ELSE IF elapsed > 60 THEN [count |-> elapsed \div 60, unit |-> "m"]
              ELSE [count |-> elapsed, unit |-> "s"]

\* exactly one hour is rendered 60m, exactly one minute 60s
C20_AtBoundaries ==
    fmt_pc = "done" =>
        /\ elapsed = 3600 => age = [count |-> 60, unit |-> "m"]
        /\ elapsed = 60 => age = [count |-> 60, unit |-> "s"]
(***************************************************************************)
(* SpecFlow: k8s_troubleshooting_flow of prefect_flows.  A text is a       *)
(* sequence of lines, a line the sequence of its cells, line.split('|'),   *)
(* and a cell a sequence of atoms: blanks, bold marks and words.  A step   *)
(* of the flow is the adapter call of the step and the post that follows   *)
(* it; Prefect runs send_to_mattermost again when it raised, send_retries  *)
(* times, and the flow function again, flow_retries times.                 *)
(***************************************************************************)
flow_retries == 1
send_retries == 2

\* K8sFormatter.format_pods_as_table on pods of the given phases
format_pods_as_table(phases) ==
    LET Word(w) == <<<<w>>>>
        Name(i) == CASE i = 1 -> "pod-1" [] i = 2 -> "pod-2" [] i = 3 -> "pod-3"
                     [] OTHER -> "pod-n"
        Row(cells) == <<<<>>>> \o [k \in 1..Len(cells) |-> <<" ">> \o cells[k] \o <<" ">>]
                        \o <<<<>>>>
    IN IF phases = <<>> THEN <<Word("No pods found matching the criteria.")>>
       ELSE <<Word("### Pods"), <<<<>>>>,
              Row(<<<<"Name">>, <<"Namespace">>, <<"Status">>, <<"Age">>>>),
              Row(<<<<"---">>, <<"---">>, <<"---">>, <<"---">>>>)>>
            \o [i \in 1..Len(phases) |->
                  Row(<<<<Name(i)>>, <<"default">>, <<"**", phases[i], "**">>, <<"1d">>>>)]
            \o <<<<<<>>>>, Word("**Summary:**")>>

\* find_abnormal_pods of prefect_flows/tasks.py on the text of the listing.
\* Each local value of the function is bound once, as the element of a
\* one-element set.
find_abnormal_pods(all_pods_table) ==
    LET Strip(cell) == SelectSeq(cell, LAMBDA a : a # " ")
        HasBar(line) == Len(line) > 1
        HasDashes(line) == \E k \in 1..Len(line) : \E j \in 1..Len(line[k]) : line[k][j] = "---"
        LowerWord(w) == CASE w = "Name" -> "name" [] w = "Namespace" -> "namespace"
                          [] w = "Status" -> "status" [] w = "Age" -> "age"
                          [] OTHER -> w
        \* headers.index(h), counted from 1; 0 stands for the ValueError
        Index(headers, h) ==
            IF \E k \in 1..Len(headers) : headers[k] = <<h>>
            THEN CHOOSE k \in 1..Len(headers) :
                    /\ headers[k] = <<h>>
                    /\ \A j \in 1..(k - 1) : headers[j] # <<h>>
            ELSE 0
        Max(a, b) == IF a >= b THEN a ELSE b
        \* lines 90-125; the three indices are those into line.split('|')
        Rows(lines, separator_line_index, name_idx, namespace_idx, status_idx) ==
            LET Status(line) == SelectSeq(Strip(line[status_idx]), LAMBDA a : a # "**")
                Abnormal(line) ==
                    /\ HasBar(line)
                    /\ Len(line) >= Max(name_idx, Max(namespace_idx, status_idx))
                    /\ Strip(line[name_idx]) # <<>> /\ Status(line) # <<>>
                    /\ Status(line) \notin {<<"Running">>, <<"Succeeded">>, <<"Completed">>}
            IN CHOOSE r \in
                 {IF abnormal_pods_found = <<>>
                  THEN [result |-> "No abnormal pods found. All pods are either Running or Succeeded.",
                        info |-> <<>>]
                  ELSE [result |-> "abnormal pods table",
                        info |-> <<[name |-> Strip(abnormal_pods_found[1][name_idx]),
                                    namespace |-> Strip(abnormal_pods_found[1][namespace_idx]),
                                    status |-> Status(abnormal_pods_found[1])]>>] :
                  abnormal_pods_found \in
                     {SelectSeq(SubSeq(lines, separator_line_index + 1, Len(lines)),
                                Abnormal)}} : TRUE
        \* lines 77-88
        Columns(lines, separator_line_index, header_line) ==
            CHOOSE r \in
              {IF Index(headers, "name") = 0 \/ Index(headers, "namespace") = 0
                  \/ Index(headers, "status") = 0
               THEN [result |-> "Could not find expected columns (name, namespace, status) in pod list.",
                     info |-> <<>>]
               ELSE Rows(lines, separator_line_index, Index(headers, "name") + 1,
                         Index(headers, "namespace") + 1, Index(headers, "status") + 1) :
               headers \in
                  {[k \in 1..Len(stripped) |->
                       [j \in 1..Len(stripped[k]) |-> LowerWord(stripped[k][j])]] :
                   stripped \in
                      {SelectSeq([k \in 1..Len(header_line) |-> Strip(header_line[k])],
                                 LAMBDA c : c # <<>>)}}} : TRUE
        \* lines 61-75: the first line with "---" and "|", the line before it
        Header(lines) ==
            CHOOSE r \in
              {IF seps = {} THEN [result |-> "Could not parse pod list.", info |-> <<>>]
               ELSE CHOOSE q \in
                      {IF header_line = <<<<>>>>
                       THEN [result |-> "Could not parse pod list.", info |-> <<>>]
                       ELSE Columns(lines, separator_line_index, header_line) :
                       separator_line_index \in {i \in seps : \A j \in seps : i <= j},
                       header_line \in
                          {IF (CHOOSE i \in seps : \A j \in seps : i <= j) = 1
                           THEN lines[Len(lines)]
                           ELSE lines[(CHOOSE i \in seps : \A j \in seps : i <= j) - 1]}} : TRUE :
               seps \in {{i \in 1..Len(lines) : HasDashes(lines[i]) /\ HasBar(lines[i])}}} : TRUE
    IN Header(all_pods_table)

\* the flow function without its except clause: a step that raised is
\* followed by the next step
flow_without_except(pc, raised, has_info, has_errors) ==
    CASE pc = "initiated"  -> [post |-> "Workflow Initiated", next |-> "namespaces"]
      [] pc = "namespaces" -> [post |-> "1. All Namespaces", next |-> "pods"]
      [] pc = "pods"       -> [post |-> "2. All Pods", next |-> "abnormal"]
      [] pc = "abnormal"   -> [post |-> "3. Abnormal Pods",
                               next |-> IF has_info THEN "describe" ELSE "healthy"]
      [] pc = "describe"   -> [post |-> "4. Pod Description", next |-> "analysis"]
      [] pc = "analysis"   -> [post |-> "5. Error Analysis",
                               next |-> IF has_errors THEN "solution" ELSE "complete"]
      [] pc = "solution"   -> [post |-> "6. Recommended Solution", next |-> "complete"]
      [] pc = "healthy"    -> [post |-> "4. Analysis Complete", next |-> "complete"]
      [] pc = "complete"   -> [post |-> "Workflow Complete", next |-> "returned"]
      [] OTHER             -> [post |-> "Workflow Error", next |-> "raised"]

\* Lines 74-234 of k8s_troubleshooting_flow: the step name posted at pc and
\* the position reached after it.  raised tells that the step's adapter call
\* or its post raised; has_info is the truth of abnormal_pod_info, has_errors
\* that extract_error_info found an error line.
k8s_troubleshooting_flow(pc, raised, has_info, has_errors) ==
    LET next ==
          CASE pc = "error"      -> "raised"
            [] raised            -> "error"
            [] pc = "initiated"  -> "namespaces"
            [] pc = "namespaces" -> "pods"
            [] pc = "pods"       -> "abnormal"
            [] pc = "abnormal"   -> IF has_info THEN "describe" ELSE "healthy"
            [] pc = "describe"   -> "analysis"
            [] pc = "analysis"   -> IF has_errors THEN "solution" ELSE "complete"
            [] pc = "solution"   -> "complete"
            [] pc = "healthy"    -> "complete"
            [] OTHER             -> "returned"
        post ==
          CASE pc = "initiated"  -> "Workflow Initiated"
            [] pc = "namespaces" -> "1. All Namespaces"
            [] pc = "pods"       -> "2. All Pods"
            [] pc = "abnormal"   -> "3. Abnormal Pods"
            [] pc = "describe"   -> "4. Pod Description"
            [] pc = "analysis"   -> "5. Error Analysis"
            [] pc = "solution"   -> "6. Recommended Solution"
            [] pc = "healthy"    -> "4. Analysis Complete"
            [] pc = "complete"   -> "Workflow Complete"
            [] OTHER             -> "Workflow Error"
    IN [post |-> post, next |-> next]

InitFlow ==
    /\ flow_target \in {[namespace |-> None, pod |-> None],
                        [namespace |-> None, pod |-> "'x"],
                        [namespace |-> "logstash", pod |-> "'x"]}
    /\ flow_run = 0
    /\ flow_listing = [kind |-> None, phases |-> <<>>]
    /\ flow_abnormal = [result |-> None, info |-> <<>>]
    /\ flow_posts = <<>>
    /\ flow_pc = "initiated"
    /\ DiscIdle /\ K8sIdle /\ HookIdle
    /\ api_key = FALSE /\ request_count = 0 /\ attempt = 0 /\ retry_delay = 1
    /\ sleeps = <<>> /\ outcomes = <<>> /\ gpt_result = None /\ gpt_pc = "idle"
    /\ elapsed = 0 /\ age = [count |-> 0, unit |-> None] /\ fmt_pc = "idle"
    /\ resource_kind = None /\ rendering = None /\ item_count = 0 /\ formatted = None
    /\ token = None /\ webhook_token = None /\ http_status = None /\ flow_runs = <<>>
    /\ slots = <<>> /\ started = 0 /\ entries = <<>> /\ http_posts = 0

\* One step of the flow function: the step's adapter call, then its post
\* with the retries of the task (a post goes through at once or at the last
\* attempt, or raises every time); after the flow raised, its retry, which
\* starts with new local variables and a new record of posts.
FlowStep ==
    /\ flow_pc \notin {"idle", "returned"}
    /\ flow_pc = "raised" => flow_run < flow_retries
    /\ IF flow_pc = "raised"
       THEN /\ flow_run' = flow_run + 1
            /\ flow_pc' = "initiated"
            /\ flow_posts' = <<>>
            /\ flow_listing' = [kind |-> None, phases |-> <<>>]
            /\ flow_abnormal' = [result |-> None, info |-> <<>>]
       ELSE \E listing \in [kind : {"pods"}, phases : UNION {[1..n -> {"Running", "Succeeded", "Pending"}] : n \in 0..MaxItems}]
                           \cup [kind : {"ApiException", "unavailable", "subprocess"}, phases : {<<>>}],
               adapter_raises \in BOOLEAN, attempts \in {1, send_retries + 1},
               post_raises \in BOOLEAN, has_errors \in BOOLEAN :
            LET all_pods_table ==
                    CASE listing.kind = "pods" -> format_pods_as_table(listing.phases)
                      [] listing.kind = "ApiException" -> <<<<<<"Error getting pods:">>>>>>
                      [] listing.kind = "unavailable" ->
                            <<<<<<"### Kubernetes Client Not Available">>>>>>
                      [] OTHER -> <<<<<<"### kubectl Command:">>>>, <<<<>>>>, <<<<"FENCE">>>>,
                                    <<<<"NAMESPACE", " ", "NAME", " ", "STATUS">>>>,
                                    <<<<"FENCE">>>>>>
                found == find_abnormal_pods(all_pods_table)
                specified == flow_target.pod # None /\ flow_target.namespace # None
                held == IF flow_pc # "abnormal" THEN flow_abnormal
                        ELSE IF specified
                        THEN [result |-> "Analyzing user-specified pod",
                              info |-> <<[name |-> <<flow_target.pod>>,
                                          namespace |-> <<flow_target.namespace>>,
                                          status |-> <<"User-specified">>]>>]
                        ELSE found
                raised == adapter_raises \/ post_raises
                step == k8s_troubleshooting_flow(flow_pc, raised, held.info # <<>>, has_errors)
            IN \* the listing is an input of step 3, the error lines of step 5
               /\ flow_pc # "abnormal" => listing = [kind |-> "pods", phases |-> <<>>]
               /\ flow_pc # "analysis" => ~has_errors
               \* execute_kubectl_command raises for an unbalanced quote
               \* when it runs kubectl as a subprocess
               /\ adapter_raises => (flow_pc = "describe" /\ held.info[1].name = <<"'x">>)
               /\ adapter_raises => (attempts = 1 /\ ~post_raises)
               \* a post that raised is attempted again, send_retries times
               /\ post_raises => attempts = send_retries + 1
               /\ flow_listing' = IF flow_pc = "abnormal" THEN listing ELSE flow_listing
               /\ flow_abnormal' = held
               /\ flow_posts' =
                     IF adapter_raises THEN flow_posts
                     ELSE flow_posts \o
                          [k \in 1..attempts |->
                              [step |-> step.post,
                               raised |-> k < attempts \/ post_raises]]
               /\ flow_pc' = step.next
               /\ UNCHANGED flow_run
    /\ UNCHANGED <<flow_target, discVars, k8sVars, hookVars, gptVars, fmtVars,
                   httpVars, callVars>>

SpecFlow == InitFlow /\ [][FlowStep]_vars
\* the place of a step name in the order of the flow
StepRank(step) ==
    CASE step = "Workflow Initiated" -> 1
      [] step = "1. All Namespaces" -> 2
      [] step = "2. All Pods" -> 3
      [] step = "3. Abnormal Pods" -> 4
      [] step \in {"4. Pod Description", "4. Analysis Complete"} -> 5
      [] step = "5. Error Analysis" -> 6
      [] step = "6. Recommended Solution" -> 7
      [] step = "Workflow Complete" -> 8
      [] OTHER -> 9

\* a post of the step went through before the j-th attempt of the run
PostedBefore(step, j) ==
    \E i \in 1..(j - 1) : flow_posts[i].step = step /\ ~flow_posts[i].raised

\* C28: in one run of the flow function the posts follow the step order
\* (an attempt is repeated only after it raised); each of the steps 1 to 4
\* follows the post of the step before it, '5. Error Analysis' follows
\* '4. Pod Description', '6. Recommended Solution' follows '5. Error
\* Analysis'; 'Workflow Complete' is attempted only when every earlier step
\* was posted; a step whose post raised for good is followed by nothing but
\* 'Workflow Error'; the run returns after 'Workflow Complete' went through
\* and otherwise raises, after 'Workflow Error' was attempted.
C28_FixedStepOrder ==
    /\ \A i \in 1..(Len(flow_posts) - 1) :
          LET this == flow_posts[i]
              that == flow_posts[i + 1]
          IN /\ StepRank(this.step) <= StepRank(that.step)
             /\ StepRank(this.step) = StepRank(that.step) =>
                   (this.step = that.step /\ this.raised)
             /\ (this.raised /\ that.step # this.step) => that.step = "Workflow Error"
    /\ \A j \in 1..Len(flow_posts) :
          LET step == flow_posts[j].step IN
          /\ step = "1. All Namespaces" => PostedBefore("Workflow Initiated", j)
          /\ step = "2. All Pods" => PostedBefore("1. All Namespaces", j)
          /\ step = "3. Abnormal Pods" => PostedBefore("2. All Pods", j)
          /\ StepRank(step) = 5 => PostedBefore("3. Abnormal Pods", j)
          /\ step = "5. Error Analysis" => PostedBefore("4. Pod Description", j)
          /\ step = "6. Recommended Solution" => PostedBefore("5. Error Analysis", j)
          /\ step = "Workflow Complete" =>
                /\ PostedBefore("4. Pod Description", j) => PostedBefore("5. Error Analysis", j)
                /\ \/ PostedBefore("4. Analysis Complete", j)
                   \/ PostedBefore("5. Error Analysis", j)
    /\ flow_pc = "returned" =>
          /\ flow_posts # <<>>
          /\ flow_posts[Len(flow_posts)] = [step |-> "Workflow Complete", raised |-> FALSE]
    /\ flow_pc = "raised" =>
          /\ flow_posts # <<>>
          /\ flow_posts[Len(flow_posts)].step = "Workflow Error"

\* a run that posted every step up to the recommended solution and returned
C28_Witness ==
    /\ flow_pc = "returned"
    /\ LET went == SelectSeq(flow_posts, LAMBDA q : ~q.raised) IN
       [i \in 1..Len(went) |-> went[i].step] =
          <<"Workflow Initiated", "1. All Namespaces", "2. All Pods", "3. Abnormal Pods",
            "4. Pod Description", "5. Error Analysis", "6. Recommended Solution",
            "Workflow Complete">>
    /\ \E i \in 1..Len(flow_posts) : flow_posts[i].raised

\* the pod listing of step 3 succeeded and listed no pod that is neither
\* Running nor Succeeded
ListedAllHealthy ==
    /\ flow_listing.kind = "pods"
    /\ \A i \in 1..Len(flow_listing.phases) :
          flow_listing.phases[i] \in {"Running", "Succeeded"}

\* step 3 has run and no pod was specified by the user: flow_abnormal is
\* what find_abnormal_pods returned
FoundByListing ==
    /\ flow_abnormal.result # None
    /\ flow_target.pod = None \/ flow_target.namespace = None

\* what find_abnormal_pods returned agrees with the listing: healthy only for
\* a listing of one or more pods that are all Running or Succeeded, no pod
\* and no healthy report for a failed, empty or unparseable listing, else
\* the first listed pod that is neither Running nor Succeeded
ReportAgreesWithListing ==
    LET phases == flow_listing.phases
        healthy == "No abnormal pods found. All pods are either Running or Succeeded."
        bad == {i \in 1..Len(phases) : phases[i] \notin {"Running", "Succeeded"}}
        first == CHOOSE i \in bad : \A j \in bad : i <= j
    IN /\ flow_abnormal.result = healthy <=> (ListedAllHealthy /\ phases # <<>>)
       /\ (flow_listing.kind # "pods" \/ phases = <<>>) => flow_abnormal.info = <<>>
       /\ (flow_listing.kind = "pods" /\ bad # {}) =>
             flow_abnormal.info =
                <<[name |-> <<IF first = 1 THEN "pod-1" ELSE IF first = 2 THEN "pod-2"
                              ELSE IF first = 3 THEN "pod-3" ELSE "pod-n">>,
                   namespace |-> <<"default">>,
                   status |-> <<phases[first]>>]>>

\* C29: the flow posts the message that no abnormal pods were found and all
\* pods are Running or Succeeded (step '4. Analysis Complete') only if the
\* listing succeeded and every listed pod is Running or Succeeded; and what
\* find_abnormal_pods returned agrees with the listing.
C29_HealthyOnlyIfListedHealthy ==
    /\ (\E i \in 1..Len(flow_posts) : flow_posts[i].step = "4. Analysis Complete") =>
          ListedAllHealthy
    /\ FoundByListing => ReportAgreesWithListing

\* C29 for find_abnormal_pods alone
C29_FindAbnormalPods == FoundByListing => ReportAgreesWithListing

\* the listing failed and the flow posted the all-healthy message
C29_HealthyAfterFailedListing ==
    /\ flow_listing.kind = "ApiException"
    /\ flow_abnormal.result = "Could not parse pod list."
    /\ \E i \in 1..Len(flow_posts) :
          flow_posts[i] = [step |-> "4. Analysis Complete", raised |-> FALSE]
====
